---- MODULE Spec2Model ----
(***************************************************************************)
(* A model of WGS, the customizable Word Game Solver: the trie-backed      *)
(* solver and its scorer (scramble.cpp), the validator with its max-flow   *)
(* and exact-cover engines (validate.cpp, ford_fulkerson.cpp, dlx.h) and   *)
(* the hill-climbing board generator (maker.cpp, dice.cpp).                *)
(*                                                                         *)
(* A C++ string is a sequence of one-character strings, a null pointer or  *)
(* the terminating '\0' is the token NUL, arrays are functions on 0..n-1.  *)
(* A double is a pair <<numerator, denominator>>; the model only uses      *)
(* values a double holds exactly.  unsigned/int values stay far below      *)
(* 2^31 in every input the model draws, unsigned char wraps at 256.        *)
(***************************************************************************)
EXTENDS Integers, Sequences, FiniteSets, TLC

VARIABLES
    \* ---- Solver object (scramble.h: class Solver) ----
    dict,        \* Trie dict: node id (the prefix leading to it) -> node
    solutions,   \* SolutionList solutions
    board,       \* const Board *board (NoBoard until the first solve)
    used,        \* unsigned char *used
    path,        \* unsigned char *path
    cur_len,     \* size_t cur_len
    wildcard,    \* char *wildcard
    \* ---- what the driver holds ----
    added,       \* the words handed to add_word so far (as given)
    rules,       \* the GameScoringRules of the last solve
    rescored,    \* result of the last score_solution call made by the driver
    op,          \* the last operation performed
    \* ---- Validator call (validate.cpp) ----
    vin,         \* the input of the last validator call
    vout,        \* its result
    \* ---- board generator (maker.cpp) ----
    gen,         \* locals of generate_dice_board / generate_prop_board
    \* ---- GameGrid object (wgs.h) ----
    grid,        \* grid_tiles, tile_adjacency and tiles_set of a GameGrid
    \* ---- DLX object (dlx.h) ----
    dlx          \* the elements' links and sizes, column_array, solutions

vars == <<dict, solutions, board, used, path, cur_len, wildcard,
          added, rules, rescored, op, vin, vout, gen, grid, dlx>>

solverVars == <<dict, solutions, board, used, path, cur_len, wildcard,
                added, rules, rescored>>

-----------------------------------------------------------------------------
(* Characters (cctype)                                                     *)

ALPHABET_SIZE == 26

NUL == "NUL"

Upper == <<"A","B","C","D","E","F","G","H","I","J","K","L","M",
           "N","O","P","Q","R","S","T","U","V","W","X","Y","Z">>

Lower == <<"a","b","c","d","e","f","g","h","i","j","k","l","m",
           "n","o","p","q","r","s","t","u","v","w","x","y","z">>

UpperSet == {Upper[i] : i \in 1..ALPHABET_SIZE}

LowerSet == {Lower[i] : i \in 1..ALPHABET_SIZE}

ToUpperMap == [c \in LowerSet |-> Upper[CHOOSE i \in 1..ALPHABET_SIZE : Lower[i] = c]]

isupper(c) == c \in UpperSet

islower(c) == c \in LowerSet

isalpha(c) == isupper(c) \/ islower(c)

toupper(c) == IF c \in LowerSet THEN ToUpperMap[c] ELSE c

\* a whole string uppercased (for (auto &c : s) c = std::toupper(c))
UpperString(s) == [i \in 1..Len(s) |-> toupper(s[i])]

Min(a, b) == IF a < b THEN a ELSE b

\* e, with v evaluated first: TLC defers the evaluation of an operator's
\* arguments, and a loop that threads its state through them would otherwise
\* pile up one deferred evaluation per iteration
Strict(v, e) == IF v = v THEN e ELSE e

\* F of the value v: the statements that follow an assignment, applied to
\* what it assigned
With(v, F(_)) == F(v)

-----------------------------------------------------------------------------
(* Trie (scramble.cpp).  A node is named by the uppercase prefix that      *)
(* leads to it; child_ptr / children[idx] point to the node named by the   *)
(* prefix extended with that letter.                                       *)

NullTrie == <<NUL>>

TrieRoot == <<>>

\* Trie::Trie()
NewTrieNode == [is_word |-> FALSE, children |-> FALSE, child_letter |-> NUL]

EmptyTrie == (TrieRoot :> NewTrieNode)

\* const Trie * Trie::child(char c) const, called on node n of trie T
Trie_child(T, n, c) ==
    IF ~isupper(c) THEN NullTrie
    ELSE IF T[n].children
         THEN IF Append(n, c) \in DOMAIN T THEN Append(n, c) ELSE NullTrie
    ELSE IF T[n].child_letter # NUL /\ T[n].child_letter = c
         THEN Append(n, c)
    ELSE NullTrie

RECURSIVE Trie_add_word(_, _, _)

\* add_word where the conversion to the array starts from empty slots: the
\* child held in the inline slot, and all below it, is gone
Trie_add_word_drop(T, n, word) ==
    IF word = <<>>
    THEN [T EXCEPT ![n].is_word = TRUE]
    ELSE LET letter == toupper(Head(word))
             c      == Append(n, letter)
         IN  IF ~isupper(letter) THEN T
             ELSE IF T[n].children
                  THEN Trie_add_word(IF c \in DOMAIN T THEN T ELSE (c :> NewTrieNode) @@ T,
                                     c, Tail(word))
             ELSE IF T[n].child_letter = letter
                  THEN Trie_add_word(T, c, Tail(word))
             ELSE IF T[n].child_letter = NUL
                  THEN Trie_add_word((c :> NewTrieNode) @@ [T EXCEPT ![n].child_letter = letter],
                                     c, Tail(word))
             ELSE LET old  == Append(n, T[n].child_letter)
                      kept == {q \in DOMAIN T :
                                 ~(Len(q) >= Len(old) /\ SubSeq(q, 1, Len(old)) = old)}
                  IN  Trie_add_word((c :> NewTrieNode)
                                       @@ [q \in kept |->
                                             IF q = n
                                             THEN [T[n] EXCEPT !.children = TRUE,
                                                               !.child_letter = NUL]
                                             ELSE T[q]],
                                    c, Tail(word))

\* void Trie::add_word(const char *word), called on node n of trie T
Trie_add_word(T, n, word) ==
    IF word = <<>>
    THEN [T EXCEPT ![n].is_word = TRUE]
    ELSE LET letter == toupper(Head(word))
             c      == Append(n, letter)
         IN  IF ~isupper(letter) THEN T
             ELSE IF T[n].children
                  THEN Trie_add_word(IF c \in DOMAIN T THEN T ELSE (c :> NewTrieNode) @@ T,
                                     c, Tail(word))
             ELSE IF T[n].child_letter = letter
                  THEN Trie_add_word(T, c, Tail(word))
             ELSE IF T[n].child_letter = NUL
                  THEN Trie_add_word((c :> NewTrieNode) @@ [T EXCEPT ![n].child_letter = letter],
                                     c, Tail(word))
             ELSE Trie_add_word((c :> NewTrieNode)
                                   @@ [T EXCEPT ![n].children = TRUE, ![n].child_letter = NUL],
                                c, Tail(word))

\* what a read through the null pointer children may give: the fault, or
\* either value
NullRead == {"fault", "true", "false"}

\* bool Trie::is_a_word(const char *word) const, called on node n of trie T:
\* the set of the outcomes it can have.  A node without children has
\* child_letter '\0' and children 0, and line 133 indexes children
RECURSIVE is_a_word(_, _, _)
is_a_word(T, n, word) ==
    IF word = <<>>
    THEN {IF T[n].is_word THEN "true" ELSE "false"}
    ELSE LET letter == Head(word)
             c      == Append(n, letter)
         IN  IF ~isupper(letter) THEN {"false"}
             ELSE IF T[n].child_letter # NUL
                  THEN IF T[n].child_letter = letter
                       THEN is_a_word(T, c, Tail(word))
                       ELSE {"false"}
             ELSE IF ~T[n].children THEN NullRead
             ELSE IF c \in DOMAIN T THEN is_a_word(T, c, Tail(word))
             ELSE {"false"}

-----------------------------------------------------------------------------
(* GameGrid (wgs.h) and Board (scramble.cpp)                               *)

MAX_GRID_WIDTH == 10

NoGrid == [tiles |-> {}, tile_adjacency |-> NUL, tiles_set |-> 0]

\* GameGrid::GameGrid(): no cell enabled, no adjacency, the count 0.  tiles
\* is the set of the cells <<x, y>> whose grid_tiles[x][y] is true
NewGameGrid == [tiles |-> {}, tile_adjacency |-> "", tiles_set |-> 0]

\* void GameGrid::setTile(size_t x, size_t y, bool value); a negative int
\* converted to size_t is beyond every width
setTile(g, x, y, value) ==
    IF x >= 0 /\ y >= 0 /\ x < MAX_GRID_WIDTH /\ y < MAX_GRID_WIDTH
    THEN IF <<x, y>> \in g.tiles
         THEN g
         ELSE [g EXCEPT !.tiles = IF value THEN @ \cup {<<x, y>>} ELSE @,
                        !.tiles_set = @ + 1]
    ELSE g

\* void GameGrid::clearTiles()
clearTiles(g) == [g EXCEPT !.tiles = {}, !.tiles_set = 0]

\* void GameGrid::setAdjacency(std::string d)
setAdjacency(g, d) == [g EXCEPT !.tile_adjacency = d]

\* json_read_grids: a new grid, its adjacency, and setTile(x - 1, y - 1,
\* true) for every position listed; cells holds the pairs <<x - 1, y - 1>>,
\* all within the grid.  Every cell is counted once, whatever the order
json_grid(cells, tile_adjacency) ==
    [tiles |-> cells, tile_adjacency |-> tile_adjacency,
     tiles_set |-> Cardinality(cells)]

\* bool GameGrid::isTileSet(x, y)
isTileSet(g, x, y) ==
    x < MAX_GRID_WIDTH /\ y < MAX_GRID_WIDTH /\ <<x, y>> \in g.tiles

\* size_t GameGrid::tilesSet()
tilesSet(g) == g.tiles_set

\* void Board::parse_board(): one pass of the second loop, for the
\* character letter; st holds the pending multipliers lm / wm (unsigned
\* char) and the tiles parsed so far
parse_step(st, letter) ==
    LET pos == Len(st.tile_grid)
    IN  IF letter = ":" THEN [st EXCEPT !.lm = (@ + 1) % 256]
        ELSE IF letter = ";" THEN [st EXCEPT !.wm = (@ + 1) % 256]
        ELSE IF isalpha(letter) \/ letter = "?" \/ letter = "."
             THEN IF islower(letter) /\ pos > 0
                  THEN [st EXCEPT !.tile_grid[pos] = Append(@, letter)]
                  ELSE IF isupper(letter) \/ letter = "?"
                  THEN [lm |-> 1, wm |-> 1,
                        tile_grid        |-> Append(st.tile_grid, <<letter>>),
                        letter_mult_grid |-> Append(st.letter_mult_grid, st.lm),
                        word_mult_grid   |-> Append(st.word_mult_grid, st.wm)]
                  ELSE IF letter = "."
                  THEN [lm |-> 1, wm |-> 1,
                        tile_grid        |-> Append(st.tile_grid, <<>>),
                        letter_mult_grid |-> Append(st.letter_mult_grid, st.lm),
                        word_mult_grid   |-> Append(st.word_mult_grid, st.wm)]
                  ELSE st
        ELSE st

\* the loop for (i = 0; i < letters.size(); i++) over the characters lo..hi
\* in their order: the first half, then the second
RECURSIVE parse_loop(_, _, _, _)
parse_loop(letters, lo, hi, st) ==
    IF lo > hi THEN st
    ELSE IF lo = hi THEN parse_step(st, letters[lo])
    ELSE With(parse_loop(letters, lo, (lo + hi) \div 2, st), LAMBDA s1 :
         Strict(s1, parse_loop(letters, (lo + hi) \div 2 + 1, hi, s1)))

\* void Board::parse_board(); the grids are 1-based sequences here, tile i of
\* the code is element i+1
parse_board(letters) ==
    LET st == parse_loop(letters, 1, Len(letters),
                         [lm |-> 1, wm |-> 1, tile_grid |-> <<>>,
                          letter_mult_grid |-> <<>>, word_mult_grid |-> <<>>])
    IN  [tile_grid |-> st.tile_grid, letter_mult_grid |-> st.letter_mult_grid,
         word_mult_grid |-> st.word_mult_grid]

\* pos_matrix[row][col] of Board::build_adjacency_matrix: the cells enabled
\* in the grid are numbered in row-major order while pos < board_size
pos_matrix(g, board_size, row, col) ==
    IF isTileSet(g, row, col)
    THEN LET pos == Cardinality({c \in g.tiles :
                        c[1] < MAX_GRID_WIDTH /\ c[2] < MAX_GRID_WIDTH
                        /\ c[1] * MAX_GRID_WIDTH + c[2] < row * MAX_GRID_WIDTH + col})
         IN  IF pos < board_size THEN pos ELSE -1
    ELSE -1

DiagonalSteps == {<<-1, -1>>, <<-1, 1>>, <<1, -1>>, <<1, 1>>}

StraightSteps == {<<-1, 0>>, <<1, 0>>, <<0, -1>>, <<0, 1>>}

\* the offsets of a grid where Diagonal means the four diagonal cells only
AdjacencySteps_corners(adjacency) ==
    (IF adjacency = "Diagonal" THEN DiagonalSteps ELSE {})
    \cup (IF adjacency = "Straight" THEN StraightSteps ELSE {})

\* the neighbour offsets build_adjacency_matrix looks at for an adjacency tag
AdjacencySteps(adjacency) ==
    (IF adjacency = "Diagonal" THEN DiagonalSteps ELSE {})
    \cup (IF adjacency = "Diagonal" \/ adjacency = "Straight" THEN StraightSteps ELSE {})

\* void Board::build_adjacency_matrix(const GameGrid *g): adj_matrix, or no
\* matrix at all for a null grid or a Full grid
build_adjacency_matrix(g, board_size) ==
    IF g = NoGrid \/ g.tile_adjacency = "Full"
    THEN [has_matrix |-> FALSE, m |-> <<>>]
    ELSE [has_matrix |-> TRUE,
          m |-> [k \in 0..(board_size * board_size - 1) |->
                   LET i == k \div board_size
                       j == k % board_size
                   IN  \E c \in g.tiles, s \in AdjacencySteps(g.tile_adjacency) :
                          /\ pos_matrix(g, board_size, c[1], c[2]) = i
                          /\ c[1] + s[1] >= 0 /\ c[1] + s[1] <= MAX_GRID_WIDTH - 1
                          /\ c[2] + s[2] >= 0 /\ c[2] + s[2] <= MAX_GRID_WIDTH - 1
                          /\ pos_matrix(g, board_size, c[1] + s[1], c[2] + s[2]) = j]]

\* Board::Board(std::string _letters, const GameGrid *g)
Board(letters, g) ==
    LET p == parse_board(letters)
        n == Len(p.tile_grid)
    IN  [letters          |-> letters,
         tile_grid        |-> p.tile_grid,
         letter_mult_grid |-> p.letter_mult_grid,
         word_mult_grid   |-> p.word_mult_grid,
         board_size       |-> n,
         adj_matrix       |-> build_adjacency_matrix(g, n)]

NoBoard == [letters |-> <<NUL>>, tile_grid |-> <<>>, letter_mult_grid |-> <<>>,
            word_mult_grid |-> <<>>, board_size |-> 0,
            adj_matrix |-> [has_matrix |-> FALSE, m |-> <<>>]]

tile(b, i) == b.tile_grid[i + 1]

letter_mult(b, i) == b.letter_mult_grid[i + 1]

word_mult(b, i) == b.word_mult_grid[i + 1]

\* bool Board::is_adjacent(size_t i, size_t j) const
is_adjacent(b, i, j) ==
    IF b.adj_matrix.has_matrix THEN b.adj_matrix.m[i * b.board_size + j] ELSE TRUE

-----------------------------------------------------------------------------
(* GameScoringRules (wgs.h)                                                *)

\* int GameScoringRules::letterValue(char letter) const
letterValue(sr, letter) ==
    IF toupper(letter) \in DOMAIN sr.letter_values
    THEN sr.letter_values[toupper(letter)] ELSE 0

\* double GameScoringRules::lengthBonus(int length) const
lengthBonus(sr, length) ==
    IF length \in DOMAIN sr.length_bonuses THEN sr.length_bonuses[length] ELSE <<0, 1>>

\* conversion of a non-negative double <<n, d>> to unsigned: truncation
Truncate(x) == x[1] \div x[2]

\* ceil() of a non-negative double <<n, d>>
ceil(x) == (x[1] + x[2] - 1) \div x[2]

-----------------------------------------------------------------------------
(* Solution and Solver::score_solution (scramble.cpp)                      *)

\* Solution::Solution(word, start_pos, stop_pos, word_length, score,
\*                    letter_points, word_multiplier, length_bonus)
Solution(word, positions, word_length, score, letter_points, word_multiplier, length_bonus) ==
    [word |-> word, positions |-> positions, word_length |-> word_length,
     score |-> score, letter_points |-> letter_points,
     word_multiplier |-> word_multiplier, length_bonus |-> length_bonus]

\* the letter score_solution reads for character i of a tile at position pos:
\* a '?' is replaced by wildcard[pos], the solver's own buffer
scored_letter(wc, pos, c) == IF c = "?" THEN wc[pos] ELSE c

\* the inner loop with a Q that always counts as one letter
RECURSIVE score_tile_q_one(_, _, _, _, _, _)
score_tile_q_one(sr, wc, pos, tile_letters, i, a) ==
    IF i > Len(tile_letters) THEN a
    ELSE LET is_wildcard == (tile_letters[i] = "?")
             letter      == scored_letter(wc, pos, tile_letters[i])
             isQ         == (letter = "Q" \/ letter = "q") /\ sr.q_is_qu
         IN  score_tile_q_one(sr, wc, pos, tile_letters, i + 1,
               [word_len   |-> a.word_len + 1,
                word       |-> IF isQ THEN a.word \o <<toupper(letter), "U">>
                                      ELSE Append(a.word, toupper(letter)),
                tile_value |-> IF ~is_wildcard \/ sr.wild_card_points
                               THEN a.tile_value + letterValue(sr, letter)
                               ELSE a.tile_value])

\* the inner loop of score_solution over the characters of one tile, from
\* character i on; a carries word_len, word and tile_value
RECURSIVE score_tile(_, _, _, _, _, _)
score_tile(sr, wc, pos, tile_letters, i, a) ==
    IF i > Len(tile_letters) THEN a
    ELSE LET is_wildcard == (tile_letters[i] = "?")
             letter      == scored_letter(wc, pos, tile_letters[i])
             isQ         == (letter = "Q" \/ letter = "q") /\ sr.q_is_qu
         IN  score_tile(sr, wc, pos, tile_letters, i + 1,
               [word_len   |-> a.word_len + 1
                                 + (IF isQ /\ sr.qu_length = 2 THEN 1 ELSE 0),
                word       |-> IF isQ THEN a.word \o <<toupper(letter), "U">>
                                      ELSE Append(a.word, toupper(letter)),
                tile_value |-> IF ~is_wildcard \/ sr.wild_card_points
                               THEN a.tile_value + letterValue(sr, letter)
                               ELSE a.tile_value])

\* the outer loop of score_solution over the path, from element k on
RECURSIVE score_path(_, _, _, _, _, _)
score_path(b, sr, wc, positions, k, a) ==
    IF k > Len(positions) THEN a
    ELSE LET pos == positions[k]
             t   == score_tile(sr, wc, pos, tile(b, pos), 1,
                               [word_len |-> a.word_len, word |-> a.word, tile_value |-> 0])
         IN  score_path(b, sr, wc, positions, k + 1,
               [word_len        |-> t.word_len,
                word            |-> t.word,
                letter_points   |-> a.letter_points + t.tile_value * letter_mult(b, pos),
                word_multiplier |-> a.word_multiplier * word_mult(b, pos)])

\* the regular score without ceil(): always converted by truncation
regular_score_trunc(sr, letter_points, word_multiplier, length_bonus) ==
    IF sr.multiply_length_bonus
    THEN Truncate(<<letter_points * word_multiplier * length_bonus[1], length_bonus[2]>>)
    ELSE Truncate(<<letter_points * word_multiplier * length_bonus[2] + length_bonus[1],
                    length_bonus[2]>>)

\* the score of a word longer than shortWordLength (scramble.cpp 579-595)
regular_score(sr, letter_points, word_multiplier, length_bonus) ==
    IF sr.multiply_length_bonus
    THEN LET x == <<letter_points * word_multiplier * length_bonus[1], length_bonus[2]>>
         IN  IF sr.round_bonus_up THEN ceil(x) ELSE Truncate(x)
    ELSE LET x == <<letter_points * word_multiplier * length_bonus[2] + length_bonus[1],
                    length_bonus[2]>>
         IN  IF sr.round_bonus_up THEN ceil(x) ELSE Truncate(x)

\* the short-word Solution with the word multiplier applied in both cases
short_word_solution_mult(sr, word, positions, word_len, word_multiplier) ==
    Solution(word, positions, word_len, word_multiplier * sr.short_word_points,
             sr.short_word_points, word_multiplier, <<0, 1>>)

\* the Solution score_solution builds for a short word (scramble.cpp 567-577)
short_word_solution(sr, word, positions, word_len, word_multiplier) ==
    IF sr.short_word_multiplier
    THEN Solution(word, positions, word_len, word_multiplier * sr.short_word_points,
                  sr.short_word_points, word_multiplier, <<0, 1>>)
    ELSE Solution(word, positions, word_len, sr.short_word_points,
                  sr.short_word_points, 1, <<0, 1>>)

\* Solution Solver::score_solution(b, s, start_pos, stop_pos) const; wc is
\* the member wildcard the function reads
score_solution(b, sr, wc, positions) ==
    LET a == score_path(b, sr, wc, positions, 1,
                        [word_len |-> 0, word |-> <<>>, letter_points |-> 0,
                         word_multiplier |-> 1])
    IN  IF a.word_len < sr.min_word_length
        THEN Solution(a.word, positions, a.word_len, 0, 0, 1, <<0, 1>>)
        ELSE IF a.word_len <= sr.short_word_length
        THEN short_word_solution(sr, a.word, positions, a.word_len, a.word_multiplier)
        ELSE LET length_bonus == lengthBonus(sr, a.word_len)
             IN  Solution(a.word, positions, a.word_len,
                          regular_score(sr, a.letter_points, a.word_multiplier, length_bonus),
                          a.letter_points, a.word_multiplier, length_bonus)

-----------------------------------------------------------------------------
(* Solver::solve and Solver::_solve (scramble.cpp).  S is the record of    *)
(* the members the walk changes: solutions, used, path, cur_len, wildcard. *)
(* x carries what stays fixed during one solve: dict, board, sr.           *)

\* path[0 .. cur_len-1] as the sequence handed to score_solution
path_upto(S) == [k \in 1..S.cur_len |-> S.path[k - 1]]

\* emit with the length test off by one: words of exactly min_word_length
\* letters are dropped
emit_strict(S, x, t) ==
    IF x.dict[t].is_word
    THEN LET new_solution == score_solution(x.board, x.sr, S.wildcard, path_upto(S))
         IN  IF new_solution.word_length > x.sr.min_word_length
             THEN [S EXCEPT !.solutions = Append(@, new_solution)]
             ELSE S
    ELSE S

\* lines 498-504: a terminal node scores the current path and keeps the
\* Solution when it is long enough
emit(S, x, t) ==
    IF x.dict[t].is_word
    THEN LET new_solution == score_solution(x.board, x.sr, S.wildcard, path_upto(S))
         IN  IF new_solution.word_length >= x.sr.min_word_length
             THEN [S EXCEPT !.solutions = Append(@, new_solution)]
             ELSE S
    ELSE S

\* lines 495-496
mark(S, pos) ==
    [S EXCEPT !.used[pos] = 1, !.path[S.cur_len] = pos, !.cur_len = @ + 1]

\* lines 513-514
unmark(S, pos) ==
    [S EXCEPT !.used[pos] = 0, !.cur_len = @ - 1]

RECURSIVE _solve(_, _, _, _, _)
RECURSIVE tile_loop(_, _, _, _, _, _)
RECURSIVE wildcard_loop(_, _, _, _, _, _, _)
RECURSIVE adjacent_loop(_, _, _, _, _)

\* the neighbour loop without the is_adjacent test
adjacent_loop_any(S, x, pos, t, i) ==
    IF i >= x.board.board_size THEN S
    ELSE LET S1 == IF S.used[i] = 0
                   THEN _solve(S, x, i, t, tile(x.board, i))
                   ELSE S
         IN  Strict(S1, adjacent_loop(S1, x, pos, t, i + 1))

\* lines 506-511: the loop over the neighbours of pos, from tile i on
adjacent_loop(S, x, pos, t, i) ==
    IF i >= x.board.board_size THEN S
    ELSE LET S1 == IF S.used[i] = 0 /\ is_adjacent(x.board, pos, i)
                   THEN _solve(S, x, i, t, tile(x.board, i))
                   ELSE S
         IN  Strict(S1, adjacent_loop(S1, x, pos, t, i + 1))

\* lines 476-481: one branch per letter 'A' + i for i = lo .. hi in this
\* order, the chosen letter recorded in wildcard[pos] and put in front of
\* the rest of the tile.  The range is run as its lower half followed by
\* its upper half, which keeps the nesting of the evaluation shallow.
wildcard_loop(S, x, pos, t, tl, lo, hi) ==
    IF lo > hi THEN S
    ELSE IF lo = hi
    THEN _solve([S EXCEPT !.wildcard[pos] = Upper[lo + 1]], x, pos, t,
                <<Upper[lo + 1]>> \o Tail(tl))
    ELSE LET mid == (lo + hi) \div 2
             S1  == wildcard_loop(S, x, pos, t, tl, lo, mid)
         IN  Strict(S1, wildcard_loop(S1, x, pos, t, tl, mid + 1, hi))

\* lines 474-514: the loop over the characters of the tile, from character
\* i on, and what follows it
tile_loop(S, x, pos, t, tl, i) ==
    IF i > Len(tl)
    THEN unmark(adjacent_loop(emit(mark(S, pos), x, t), x, pos, t, 0), pos)
    ELSE IF tl[i] = "?"
    THEN wildcard_loop(S, x, pos, t, tl, 0, ALPHABET_SIZE - 1)
    ELSE LET t1 == Trie_child(x.dict, t, toupper(tl[i]))
         IN  IF t1 = NullTrie THEN S
             ELSE IF x.sr.q_is_qu /\ toupper(tl[i]) = "Q"
                  THEN LET t2 == Trie_child(x.dict, t1, "U")
                       IN  IF t2 = NullTrie THEN S
                           ELSE tile_loop(S, x, pos, t2, tl, i + 1)
                  ELSE tile_loop(S, x, pos, t1, tl, i + 1)

\* void Solver::_solve(size_t pos, const Trie *t, const std::string &tile, sr)
_solve(S, x, pos, t, tl) ==
    IF t = NullTrie THEN S
    ELSE IF tl = <<>> THEN S
    ELSE tile_loop(S, x, pos, t, tl, 1)

\* lines 465-467
RECURSIVE start_loop(_, _, _)
start_loop(S, x, i) ==
    IF i >= x.board.board_size THEN S
    ELSE LET S1 == _solve(S, x, i, TrieRoot, tile(x.board, i))
         IN  Strict(S1, start_loop(S1, x, i + 1))

\* the reset without solutions.clear()
solve_reset_keep(S0, board_size) ==
    [solutions |-> S0.solutions,
     cur_len   |-> 0,
     used      |-> [i \in 0..(board_size - 1) |-> 0],
     path      |-> [i \in 0..(board_size - 1) |-> 0],
     wildcard  |-> [i \in 0..(board_size - 1) |-> NUL]]

\* lines 447-463: what solve resets before the walk; S0 holds the members
\* as the previous call left them
solve_reset(S0, board_size) ==
    [solutions |-> <<>>,
     cur_len   |-> 0,
     used      |-> [i \in 0..(board_size - 1) |-> 0],
     path      |-> [i \in 0..(board_size - 1) |-> 0],
     wildcard  |-> [i \in 0..(board_size - 1) |-> NUL]]

\* void Solver::solve(const Board *b, const GameScoringRules &sr)
solve(S0, d, b, sr) ==
    IF b = NoBoard THEN S0
    ELSE start_loop(solve_reset(S0, b.board_size), [dict |-> d, board |-> b, sr |-> sr], 0)

\* Solver::Solver(): no buffers, no solutions
NewSolver == [solutions |-> <<>>, cur_len |-> 0, used |-> <<>>, path |-> <<>>,
              wildcard |-> <<>>]

-----------------------------------------------------------------------------
(* Inputs of the solver model                                              *)

\* how many words the driver loads into the dictionary
MaxWords == 2

\* the words the dictionary file may hold; the last one is no word (add_word
\* stops at the apostrophe)
SolverWords ==
    { <<"A","T">>, <<"T","A">>, <<"q","u","a">>, <<"Z">>, <<"T","A","'","S">> }

Line3 == { <<0, 0>>, <<0, 1>>, <<0, 2>> }

Square2 == { <<0, 0>>, <<0, 1>>, <<1, 0>>, <<1, 1>> }

SolverGrids ==
    { json_grid(Line3, "Straight"),
      json_grid(Square2, "Diagonal"),
      json_grid(Line3, "Full") }

\* board description strings: plain tiles, a wildcard, a Q, an empty tile,
\* multipliers and a two-letter tile, a wildcard next to a Q
SolverBoards ==
    { <<"A","T","A">>,
      <<"?","T">>,
      <<"Q","A",";","T">>,
      <<"A",".","T">>,
      <<":","T","a",";","?">>,
      <<"?","Q","A">> }

LetterValues == [c \in {"A", "T", "Q", "U", "Z"} |->
                    IF c = "A" THEN 1 ELSE IF c = "T" THEN 2 ELSE IF c = "U" THEN 3
                    ELSE IF c = "Q" THEN 8 ELSE 10]

SolverRules ==
    { \* the defaults of GameScoringRules::GameScoringRules() plus letter values
      [q_is_qu |-> TRUE, qu_length |-> 1, min_word_length |-> 0,
       short_word_length |-> 0, short_word_points |-> 0, short_word_multiplier |-> FALSE,
       wild_card_points |-> FALSE, round_bonus_up |-> FALSE, multiply_length_bonus |-> FALSE,
       random_board_size |-> 0, letter_values |-> LetterValues, length_bonuses |-> <<>>],
      \* Qu counts two letters, words of three letters and more, bonus 2.5
      [q_is_qu |-> TRUE, qu_length |-> 2, min_word_length |-> 3,
       short_word_length |-> 0, short_word_points |-> 0, short_word_multiplier |-> FALSE,
       wild_card_points |-> TRUE, round_bonus_up |-> TRUE, multiply_length_bonus |-> FALSE,
       random_board_size |-> 0, letter_values |-> LetterValues, length_bonuses |-> (3 :> <<5, 2>>)],
      \* Qu counts one letter, words of three letters and more
      [q_is_qu |-> TRUE, qu_length |-> 1, min_word_length |-> 3,
       short_word_length |-> 0, short_word_points |-> 0, short_word_multiplier |-> FALSE,
       wild_card_points |-> TRUE, round_bonus_up |-> FALSE, multiply_length_bonus |-> FALSE,
       random_board_size |-> 0, letter_values |-> LetterValues, length_bonuses |-> <<>>],
      \* a Q is a Q, two-letter words are short words
      [q_is_qu |-> FALSE, qu_length |-> 1, min_word_length |-> 2,
       short_word_length |-> 2, short_word_points |-> 1, short_word_multiplier |-> TRUE,
       wild_card_points |-> TRUE, round_bonus_up |-> FALSE, multiply_length_bonus |-> TRUE,
       random_board_size |-> 0, letter_values |-> LetterValues, length_bonuses |-> (3 :> <<3, 2>>)] }

NoRules == [q_is_qu |-> TRUE, qu_length |-> 1, min_word_length |-> 0,
            short_word_length |-> 0, short_word_points |-> 0, short_word_multiplier |-> FALSE,
            wild_card_points |-> FALSE, round_bonus_up |-> FALSE,
            multiply_length_bonus |-> FALSE, random_board_size |-> 0,
            letter_values |-> <<>>, length_bonuses |-> <<>>]

NoSolution == Solution(<<>>, <<>>, 0, 0, 0, 1, <<0, 1>>)

\* the boards of the solver model, built once
\* boards with a Q and with a Qu tile before I and T, the Q also last
QuBoards ==
    { <<"Q","u","I","T">>, <<"Q","I","T">>, <<"q","I","T">>, <<"T","I","Q">> }

SolverBoardOf ==
    [in \in (SolverBoards \cup QuBoards) \X SolverGrids |-> Board(in[1], in[2])]

-----------------------------------------------------------------------------
(* fordFulkerson (ford_fulkerson.cpp): capacity_matrix and flow_network    *)
(* are arrays of vertices * vertices ints, element u * vertices + v.       *)

\* fordFulkerson::fordFulkerson(int _vertices)
fordFulkerson(vertices) ==
    [vertices        |-> vertices,
     capacity_matrix |-> [e \in 0..(vertices * vertices - 1) |-> 0]]

\* void fordFulkerson::addEdge(int u, int v)
addEdge(ff, u, v) == [ff EXCEPT !.capacity_matrix[u * ff.vertices + v] = 1]

RECURSIVE ff_scan(_, _, _, _, _)

\* the search without the flow back along v -> u: no edge is ever undone
ff_scan_forward(ff, flow_network, u, v, a) ==
    IF v >= ff.vertices THEN a
    ELSE IF a.prev[v] = -1
            /\ flow_network[u * ff.vertices + v] < ff.capacity_matrix[u * ff.vertices + v]
         THEN ff_scan(ff, flow_network, u, v + 1,
                      [a EXCEPT !.prev[v] = u, !.q = Append(@, v)])
         ELSE ff_scan(ff, flow_network, u, v + 1, a)

\* the for loop of the search over v, for the dequeued vertex u; a carries
\* the queue q (q[qf..qb-1] is its tail from qf on) and prev
ff_scan(ff, flow_network, u, v, a) ==
    IF v >= ff.vertices THEN a
    ELSE IF a.prev[v] = -1
            /\ flow_network[u * ff.vertices + v] - flow_network[v * ff.vertices + u]
                  < ff.capacity_matrix[u * ff.vertices + v]
         THEN ff_scan(ff, flow_network, u, v + 1,
                      [a EXCEPT !.prev[v] = u, !.q = Append(@, v)])
         ELSE ff_scan(ff, flow_network, u, v + 1, a)

\* while (qb > qf && prev[sink] == -1)
RECURSIVE ff_search(_, _, _, _)
ff_search(ff, flow_network, sink, a) ==
    IF Len(a.q) > a.qf /\ a.prev[sink] = -1
    THEN ff_search(ff, flow_network, sink,
                   ff_scan(ff, flow_network, a.q[a.qf + 1], 0, [a EXCEPT !.qf = @ + 1]))
    ELSE a

\* the bottleneck capacity of the path that prev holds, from v back
RECURSIVE ff_bottleneck(_, _, _, _, _)
ff_bottleneck(ff, flow_network, prev, v, bot) ==
    LET u == prev[v]
    IN  IF u < 0 THEN bot
        ELSE LET new_bot == ff.capacity_matrix[u * ff.vertices + v]
                              - flow_network[u * ff.vertices + v]
                              + flow_network[v * ff.vertices + u]
             IN  ff_bottleneck(ff, flow_network, prev, u,
                               IF bot > new_bot THEN new_bot ELSE bot)

\* the update of the flow network along the path that prev holds
RECURSIVE ff_update(_, _, _, _, _)
ff_update(ff, flow_network, prev, v, bot) ==
    LET u == prev[v]
    IN  IF u < 0 THEN flow_network
        ELSE ff_update(ff, [flow_network EXCEPT ![u * ff.vertices + v] = @ + bot],
                       prev, u, bot)

\* the while (true) loop of maxFlow; rounds counts its iterations
RECURSIVE ff_loop(_, _, _, _, _, _)
ff_loop(ff, source, sink, flow_network, flow, rounds) ==
    LET a == ff_search(ff, flow_network, sink,
                       [q    |-> <<source>>,
                        qf   |-> 0,
                        prev |-> [i \in 0..(ff.vertices - 1) |->
                                     IF i = source THEN -2 ELSE -1]])
    IN  IF a.prev[sink] = -1 THEN [flow |-> flow, rounds |-> rounds + 1]
        ELSE LET bot == ff_bottleneck(ff, flow_network, a.prev, sink, 2147483647)
             IN  ff_loop(ff, source, sink,
                         ff_update(ff, flow_network, a.prev, sink, bot),
                         flow + bot, rounds + 1)

\* size_t fordFulkerson::maxFlow(int source, int sink), with the number of
\* iterations of its outer loop
maxFlowRun(ff, source, sink) ==
    ff_loop(ff, source, sink, [e \in 0..(ff.vertices * ff.vertices - 1) |-> 0], 0, 0)

maxFlow(ff, source, sink) == maxFlowRun(ff, source, sink).flow

\* 0 = super source, 1..x = dice, x+1..y = letters or tiles, y+1 = super sink
RECURSIVE ff_add_edges(_, _)
ff_add_edges(ff, edges) ==
    IF edges = {} THEN ff
    ELSE LET e == CHOOSE e \in edges : TRUE
         IN  ff_add_edges(addEdge(ff, e[1], e[2]), edges \ {e})

\* the graph both dice validations build: n_dice dice, n_right letters or
\* tiles, and the dice-to-right edges match (1-based pairs <<i, k>>)
ff_graph(n_dice, n_right, match) ==
    ff_add_edges(fordFulkerson(n_dice + n_right + 2),
        {<<0, i>> : i \in 1..n_dice}
        \cup {<<i + n_dice, n_dice + n_right + 1>> : i \in 1..n_right}
        \cup {<<m[1], m[2] + n_dice>> : m \in match})

-----------------------------------------------------------------------------
(* DLX (dlx.h).  Elements are numbered in the order they are allocated,    *)
(* the root is element 0; L, R, U, D, C and S hold the fields of element e *)
(* at index e + 1.  The root's U, D, C and S are never set (-1 here).      *)

\* DLX::DLX()
NewDLX ==
    [L |-> <<0>>, R |-> <<0>>, U |-> <<-1>>, D |-> <<-1>>, C |-> <<-1>>, S |-> <<-1>>,
     column_array |-> <<>>, last_added |-> 0, O |-> <<>>,
     solutions |-> 0, all_solutions |-> FALSE]

\* e->f
fld(X, f, e) == X[f][e + 1]

\* e->f = v
put(X, f, e, v) == [X EXCEPT ![f][e + 1] = v]

\* void DLX::addColumn(const char *name)
addColumn(X) ==
    With(Len(X.L), LAMBDA c :
        [put(put([X EXCEPT !.L = Append(@, X.last_added), !.R = Append(@, 0),
                           !.U = Append(@, c), !.D = Append(@, c),
                           !.C = Append(@, -1), !.S = Append(@, 0),
                           !.column_array = Append(@, c)],
                 "R", X.last_added, c),
             "L", 0, c)
         EXCEPT !.last_added = c])

\* the loop of addRow over values, from element i on; first and last are
\* the row's first and last element so far (-1: none)
RECURSIVE addRow_loop(_, _, _, _, _)
addRow_loop(X, values, i, first, last) ==
    IF i > Len(values) THEN X
    ELSE With(X.column_array[values[i] + 1], LAMBDA tmp :
         With(Len(X.L), LAMBDA c :
         With([X EXCEPT !.L = Append(@, c), !.R = Append(@, c),
                        !.U = Append(@, fld(X, "U", tmp)),
                        !.D = Append(@, tmp),
                        !.C = Append(@, tmp), !.S = Append(@, -1)], LAMBDA X1 :
         With(put(X1, "S", tmp, fld(X1, "S", tmp) + 1), LAMBDA X2 :
         With(put(X2, "U", tmp, c), LAMBDA X3 :
         With(put(X3, "D", fld(X3, "U", c), c), LAMBDA X4 :
         With(IF last # -1 THEN put(put(X4, "L", c, last), "R", last, c) ELSE X4, LAMBDA X5 :
         With(IF first # -1 THEN put(put(X5, "R", c, first), "L", first, c) ELSE X5, LAMBDA X6 :
         Strict(X6, addRow_loop(X6, values, i + 1,
                                IF first = -1 THEN c ELSE first, c))))))))))

\* void DLX::addRow(std::vector<size_t> values)
addRow(X, values) == addRow_loop(X, values, 1, -1, -1)

\* the inner loop of cover: for (j = i->R; j != i; j = j->R)
RECURSIVE cover_row(_, _, _)
cover_row(X, i, j) ==
    IF j = i THEN X
    ELSE With(put(X, "U", fld(X, "D", j), fld(X, "U", j)), LAMBDA X1 :
         With(put(X1, "D", fld(X1, "U", j), fld(X1, "D", j)), LAMBDA X2 :
         With(put(X2, "S", fld(X2, "C", j), fld(X2, "S", fld(X2, "C", j)) - 1), LAMBDA X3 :
         Strict(X3, cover_row(X3, i, fld(X3, "R", j))))))

\* the outer loop of cover: for (i = c->D; i != c; i = i->D)
RECURSIVE cover_rows(_, _, _)
cover_rows(X, c, i) ==
    IF i = c THEN X
    ELSE With(cover_row(X, i, fld(X, "R", i)), LAMBDA X1 :
         Strict(X1, cover_rows(X1, c, fld(X1, "D", i))))

\* void DLX::cover(ELEMENT c)
cover(X, c) ==
    With(put(X, "L", fld(X, "R", c), fld(X, "L", c)), LAMBDA X1 :
    With(put(X1, "R", fld(X1, "L", c), fld(X1, "R", c)), LAMBDA X2 :
    cover_rows(X2, c, fld(X2, "D", c))))

\* the inner loop of uncover: for (j = i->L; j != i; j = j->L)
RECURSIVE uncover_row(_, _, _)
uncover_row(X, i, j) ==
    IF j = i THEN X
    ELSE With(put(X, "S", fld(X, "C", j), fld(X, "S", fld(X, "C", j)) + 1), LAMBDA X1 :
         With(put(X1, "U", fld(X1, "D", j), j), LAMBDA X2 :
         With(put(X2, "D", fld(X2, "U", j), j), LAMBDA X3 :
         Strict(X3, uncover_row(X3, i, fld(X3, "L", j))))))

\* the outer loop of uncover: for (i = c->U; i != c; i = i->U)
RECURSIVE uncover_rows(_, _, _)
uncover_rows(X, c, i) ==
    IF i = c THEN X
    ELSE With(uncover_row(X, i, fld(X, "L", i)), LAMBDA X1 :
         Strict(X1, uncover_rows(X1, c, fld(X1, "U", i))))

\* uncover that puts the rows back and leaves the column out of the header
\* list
uncover_rows_only(X, c) == uncover_rows(X, c, fld(X, "U", c))

\* void DLX::uncover(ELEMENT c)
uncover(X, c) ==
    With(uncover_rows(X, c, fld(X, "U", c)), LAMBDA X1 :
    With(put(X1, "L", fld(X1, "R", c), c), LAMBDA X2 :
    put(X2, "R", fld(X2, "L", c), c)))

\* choose column c: the first column of least S from root->R on
RECURSIVE choose_column(_, _, _, _)
choose_column(X, pick, c, size) ==
    IF pick = 0 THEN c
    ELSE IF size = -1 \/ fld(X, "S", pick) < size
         THEN choose_column(X, fld(X, "R", pick), pick, fld(X, "S", pick))
         ELSE choose_column(X, fld(X, "R", pick), c, size)

\* for (j = r->R; r != j; j = j->R) cover(j->C)
RECURSIVE cover_others(_, _, _)
cover_others(X, r, j) ==
    IF j = r THEN X
    ELSE With(cover(X, fld(X, "C", j)), LAMBDA X1 :
         Strict(X1, cover_others(X1, r, fld(X1, "R", j))))

\* for (j = r->L; j != r; j = j->L) uncover(j->C)
RECURSIVE uncover_others(_, _, _)
uncover_others(X, r, j) ==
    IF j = r THEN X
    ELSE With(uncover(X, fld(X, "C", j)), LAMBDA X1 :
         Strict(X1, uncover_others(X1, r, fld(X1, "L", j))))

RECURSIVE _search(_, _)
RECURSIVE search_rows(_, _, _, _)

\* for (r = c->D; r != c; r = r->D) of _search at level k
search_rows(X, k, c, r) ==
    IF r = c THEN X
    ELSE With([X EXCEPT !.O = [i \in 1..(IF k + 1 > Len(@) THEN k + 1 ELSE Len(@)) |->
                                  IF i = k + 1 THEN r ELSE @[i]]], LAMBDA X1 :
         With(cover_others(X1, r, fld(X1, "R", r)), LAMBDA X2 :
         With(_search(X2, k + 1), LAMBDA X3 :
         With(X3.O[k + 1], LAMBDA r2 :
         With(uncover_others(X3, r2, fld(X3, "L", r2)), LAMBDA X4 :
         IF X4.solutions # 0 /\ ~X4.all_solutions THEN X4
         ELSE Strict(X4, search_rows(X4, k, c, fld(X4, "D", r2))))))))

\* int DLX::_search(size_t k)
_search(X, k) ==
    IF fld(X, "R", 0) = 0 THEN [X EXCEPT !.solutions = @ + 1]
    ELSE With(choose_column(X, fld(X, "R", 0), fld(X, "R", 0), -1), LAMBDA c :
         With(cover(X, c), LAMBDA X1 :
         uncover(search_rows(X1, k, c, fld(X1, "D", c)), c)))

\* int DLX::solve(bool _all_solutions): the object after the search; the
\* return value is its solutions
DLX_solve(X, all) == _search([X EXCEPT !.all_solutions = all, !.solutions = 0], 0)

-----------------------------------------------------------------------------
(* Validator (validate.cpp).  dice is a sequence of dice, a die a sequence *)
(* of faces, a face, a tile and a word a sequence of characters.  V is the *)
(* record of the Validator's counters.                                     *)

\* std::string::npos
npos == -1

\* size_t std::string::find(const std::string &t, size_t pos) const
RECURSIVE string_find(_, _, _)
string_find(str, t, pos) ==
    IF pos + Len(t) > Len(str) THEN npos
    ELSE IF SubSeq(str, pos + 1, pos + Len(t)) = t THEN pos
    ELSE string_find(str, t, pos + 1)

\* std::string::substr(1)
substr1(str) == SubSeq(str, 2, Len(str))

\* s[0], '\0' for the empty string
char0(str) == IF str = <<>> THEN NUL ELSE str[1]

\* Validator::Validator(): all counters 0
NewValidator == [ff_used |-> 0, ff_found |-> 0, dlx_used |-> 0, dlx_found |-> 0,
                 long_words |-> 0]

\* bool Validator::multiLetterDice(dice)
multiLetterDice(dice) ==
    \E i \in 1..Len(dice) : \E j \in 1..Len(dice[i]) : Len(dice[i][j]) > 1

\* lines 105-115: the edges from dice to word letters, single-character
\* faces only
dice_word_edges(dice, word) ==
    {<<i, k>> \in (1..Len(dice)) \X (1..Len(word)) :
        \E j \in 1..Len(dice[i]) :
            /\ ~(Len(dice[i][j]) > 1)
            /\ (char0(dice[i][j]) = word[k] \/ char0(dice[i][j]) = "?")}

\* lines 123-132: the sum over the dice of the longest face
RECURSIVE max_face_len(_, _, _)
max_face_len(die, j, m) ==
    IF j > Len(die) THEN m
    ELSE max_face_len(die, j + 1, IF Len(die[j]) > m THEN Len(die[j]) ELSE m)

RECURSIVE dice_capacity(_, _)
dice_capacity(dice, i) ==
    IF i > Len(dice) THEN 0 ELSE max_face_len(dice[i], 1, 0) + dice_capacity(dice, i + 1)

\* lines 140-152: is there a multi-letter face that sends the word to DLX
dlx_gate(dice, word) ==
    \E i \in 1..Len(dice) : \E j \in 1..Len(dice[i]) :
        LET face == dice[i][j]
        IN  /\ ~(Len(face) <= 1)
            /\ \/ string_find(word, face, 0) # npos
               \/ /\ face[1] = "?"
                  /\ string_find(word, substr1(face), 0) # npos
                  /\ string_find(word, substr1(face), 0) > 0

\* lines 198-209: the rows of one face, one for every place from pos on
\* where face_text is found in the word
RECURSIVE face_rows(_, _, _, _, _)
face_rows(word, face_text, using_wildcard, die_offset, pos) ==
    LET at == string_find(word, face_text, pos)
    IN  IF at = npos THEN <<>>
        ELSE <<[i \in 1..Len(face_text) |-> at + i - 1]
                 \o (IF using_wildcard THEN <<at - 1>> ELSE <<>>)
                 \o <<die_offset>>>>
             \o face_rows(word, face_text, using_wildcard, die_offset, at + 1)

\* the rows of a face, none for a wildcard
rows_of_face_no_wildcard(word, face, die_offset) ==
    IF face = <<"?">>
    THEN <<>>
    ELSE IF char0(face) = "?"
         THEN face_rows(word, substr1(face), TRUE, die_offset, 1)
         ELSE face_rows(word, face, FALSE, die_offset, 0)

\* lines 172-210: the rows one face of a die adds
rows_of_face(word, face, die_offset) ==
    IF face = <<"?">>
    THEN [i \in 1..Len(word) |-> <<i - 1, die_offset>>]
    ELSE IF char0(face) = "?"
         THEN face_rows(word, substr1(face), TRUE, die_offset, 1)
         ELSE face_rows(word, face, FALSE, die_offset, 0)

\* the rows of all faces of a die, without the row of the die alone
RECURSIVE rows_of_die_used(_, _, _, _)
rows_of_die_used(word, die, j, die_offset) ==
    IF j > Len(die) THEN <<>>
    ELSE rows_of_face(word, die[j], die_offset)
         \o rows_of_die_used(word, die, j + 1, die_offset)

\* lines 171-217: the rows of all faces of a die, then the die alone
RECURSIVE rows_of_die(_, _, _, _)
rows_of_die(word, die, j, die_offset) ==
    IF j > Len(die) THEN <<<<die_offset>>>>
    ELSE rows_of_face(word, die[j], die_offset) \o rows_of_die(word, die, j + 1, die_offset)

\* lines 170-218: the rows of all dice, in the order they are added
RECURSIVE rows_of_dice(_, _, _)
rows_of_dice(word, dice, i) ==
    IF i > Len(dice) THEN <<>>
    ELSE rows_of_die(word, dice[i], 1, Len(word) + i - 1) \o rows_of_dice(word, dice, i + 1)

RECURSIVE dlx_columns(_, _)
dlx_columns(X, n) == IF n = 0 THEN X ELSE dlx_columns(addColumn(X), n - 1)

RECURSIVE dlx_rows(_, _, _)
dlx_rows(X, rows, i) ==
    IF i > Len(rows) THEN X
    ELSE With(addRow(X, rows[i]), LAMBDA X1 : Strict(X1, dlx_rows(X1, rows, i + 1)))

\* lines 157-219: the DLX object validateDiceWord builds
dice_word_dlx(dice, word) ==
    dlx_rows(dlx_columns(NewDLX, Len(word) + Len(dice)), rows_of_dice(word, dice, 1), 1)

\* bool Validator::validateDiceWord(dice, word): the return value and the
\* counters after the call
validateDiceWord(V, dice, word) ==
    LET ff == ff_graph(Len(dice), Len(word), dice_word_edges(dice, word))
        flow_result == maxFlow(ff, 0, Len(dice) + Len(word) + 1)
        V1 == [V EXCEPT !.ff_used = @ + 1]
    IN  IF flow_result = Len(word)
        THEN [result |-> TRUE, V |-> [V1 EXCEPT !.ff_found = @ + 1]]
        ELSE IF Len(word) > dice_capacity(dice, 1)
        THEN [result |-> FALSE, V |-> [V1 EXCEPT !.long_words = @ + 1]]
        ELSE IF ~(multiLetterDice(dice) /\ dlx_gate(dice, word))
        THEN [result |-> FALSE, V |-> V1]
        ELSE LET found == DLX_solve(dice_word_dlx(dice, word), FALSE).solutions # 0
             IN  [result |-> found,
                  V |-> [V1 EXCEPT !.dlx_used = @ + 1,
                                   !.dlx_found = @ + (IF found THEN 1 ELSE 0)]]

\* lines 266-274: the edges from dice to board tiles
dice_board_edges(dice, board_tiles) ==
    {<<i, k>> \in (1..Len(dice)) \X (1..Len(board_tiles)) :
        \E j \in 1..Len(dice[i]) : dice[i][j] = board_tiles[k]}

\* the maxFlow call of validateDiceBoard
dice_board_flow(dice, board_tiles) ==
    maxFlowRun(ff_graph(Len(dice), Len(board_tiles), dice_board_edges(dice, board_tiles)),
               0, Len(dice) + Len(board_tiles) + 1)

\* bool Validator::validateDiceBoard(dice, board_tiles)
validateDiceBoard(V, dice, board_tiles) ==
    LET result == (dice_board_flow(dice, board_tiles).flow = Len(board_tiles))
    IN  [result |-> result,
         V |-> [V EXCEPT !.ff_used = @ + 1, !.ff_found = @ + (IF result THEN 1 ELSE 0)]]

-----------------------------------------------------------------------------
(* GameLetterDistribution (wgs.h) and Validator::validate (validate.cpp)   *)

\* void GameLetterDistribution::setDiceLetters(letters): the loop from
\* character i on, and the push of the last die after it
RECURSIVE setDiceLetters_loop(_, _, _, _, _)
setDiceLetters_loop(letters, i, cur_letters, cur_sides, dice) ==
    IF i > Len(letters)
    THEN IF cur_sides # <<>> THEN Append(dice, cur_sides) ELSE dice
    ELSE LET letter == letters[i]
         IN  IF letter = ":" \/ letter = ";"
             THEN setDiceLetters_loop(letters, i + 1, Append(cur_letters, letter),
                                      cur_sides, dice)
             ELSE IF isupper(letter) \/ letter = "?" \/ letter = "."
             THEN setDiceLetters_loop(letters, i + 1, <<>>,
                                      Append(cur_sides, Append(cur_letters, letter)), dice)
             ELSE IF islower(letter) /\ cur_sides # <<>>
             THEN setDiceLetters_loop(letters, i + 1, cur_letters,
                      [cur_sides EXCEPT ![Len(cur_sides)] = Append(@, letter)], dice)
             ELSE IF letter = "," /\ cur_sides # <<>>
             THEN setDiceLetters_loop(letters, i + 1, <<>>, <<>>, Append(dice, cur_sides))
             ELSE setDiceLetters_loop(letters, i + 1, cur_letters, cur_sides, dice)

setDiceLetters(letters) == setDiceLetters_loop(letters, 1, <<>>, <<>>, <<>>)

\* void GameLetterDistribution::setPropensityLetters(letters)
RECURSIVE setPropensityLetters_loop(_, _, _, _)
setPropensityLetters_loop(letters, i, cur_letters, propensity_list) ==
    IF i > Len(letters) THEN propensity_list
    ELSE LET letter == letters[i]
         IN  IF letter = ":" \/ letter = ";"
             THEN setPropensityLetters_loop(letters, i + 1, Append(cur_letters, letter),
                                            propensity_list)
             ELSE IF isupper(letter) \/ letter = "?" \/ letter = "."
             THEN setPropensityLetters_loop(letters, i + 1, <<>>,
                      Append(propensity_list, Append(cur_letters, letter)))
             ELSE IF islower(letter) /\ propensity_list # <<>>
             THEN setPropensityLetters_loop(letters, i + 1, cur_letters,
                      [propensity_list EXCEPT ![Len(propensity_list)] = Append(@, letter)])
             ELSE setPropensityLetters_loop(letters, i + 1, cur_letters, propensity_list)

setPropensityLetters(letters) == setPropensityLetters_loop(letters, 1, <<>>, <<>>)

\* erase(remove_if(...)): what is left of a string when everything but
\* letters and, if keep_wild, '?' is removed
RECURSIVE strip(_, _)
strip(str, keep_wild) ==
    IF str = <<>> THEN <<>>
    ELSE IF isalpha(Head(str)) \/ (keep_wild /\ Head(str) = "?")
         THEN <<Head(str)>> \o strip(Tail(str), keep_wild)
         ELSE strip(Tail(str), keep_wild)

\* the value of a character of a normalized string: '?' is below 'A'
char_code(c) ==
    IF c = "?" THEN 63 ELSE 64 + (CHOOSE k \in 1..ALPHABET_SIZE : Upper[k] = c)

\* operator< of std::string
RECURSIVE string_less(_, _)
string_less(a, b) ==
    IF b = <<>> THEN FALSE
    ELSE IF a = <<>> THEN TRUE
    ELSE IF Head(a) # Head(b) THEN char_code(Head(a)) < char_code(Head(b))
    ELSE string_less(Tail(a), Tail(b))

\* sort(...) then erase(unique(...)): the distinct strings in rising order
RECURSIVE sorted_strings(_)
sorted_strings(strs) ==
    IF strs = {} THEN <<>>
    ELSE LET m == CHOOSE x \in strs : \A y \in strs \ {x} : string_less(x, y)
         IN  <<m>> \o sorted_strings(strs \ {m})

sort_unique(v) == sorted_strings({v[i] : i \in 1..Len(v)})

\* lines 518-528 and 569-577: a face or pool tile without multipliers and
\* '.', in upper case
normalize(v) == [i \in 1..Len(v) |-> UpperString(strip(v[i], TRUE))]

\* lines 541-547: the uppercased tiles of the Board parsed from to_check
board_tiles_of(to_check, g) ==
    LET b == Board(to_check, g)
    IN  [i \in 1..b.board_size |-> UpperString(b.tile_grid[i])]

\* bool Validator::validatePropensityBoard(prop_letters, board_tiles,
\* sample_without_replace): the loop from tile k on
RECURSIVE validatePropensityBoard(_, _, _, _)
validatePropensityBoard(letters, board_tiles, k, sample_without_replace) ==
    IF k > Len(board_tiles) THEN TRUE
    ELSE IF \A i \in 1..Len(letters) : letters[i] # board_tiles[k] THEN FALSE
    ELSE LET at == CHOOSE i \in 1..Len(letters) :
                      /\ letters[i] = board_tiles[k]
                      /\ \A h \in 1..(i - 1) : letters[h] # board_tiles[k]
         IN  validatePropensityBoard(
                 IF sample_without_replace
                 THEN SubSeq(letters, 1, at - 1) \o SubSeq(letters, at + 1, Len(letters))
                 ELSE letters,
                 board_tiles, k + 1, sample_without_replace)

\* bool Validator::validate(grs, to_check, interpret) with interpret false:
\* is to_check a board of the game's dice or letter pool
validate_board(V, grs, to_check) ==
    LET checked == strip(to_check, TRUE)
        tiles   == board_tiles_of(checked, grs.grid)
    IN  IF grs.letters.generation_method = "Dice"
        THEN validateDiceBoard(V,
                 [i \in 1..Len(grs.letters.dice) |->
                     sort_unique(normalize(grs.letters.dice[i]))],
                 tiles)
        ELSE IF grs.letters.generation_method = "LetterPropensity"
        THEN LET letters == normalize(grs.letters.propensity_list)
             IN  [result |-> validatePropensityBoard(
                                 IF ~grs.letters.sample_without_replacement
                                 THEN sort_unique(letters) ELSE letters,
                                 tiles, 1, grs.letters.sample_without_replacement),
                  V |-> V]
        ELSE [result |-> FALSE, V |-> V]

-----------------------------------------------------------------------------
(* Dice (dice.cpp) and the board generators (maker.cpp).  Every rand() is  *)
(* an argument: the value it returned.  positions and die_faces hold the   *)
(* 0-based values of the code; element i of the code is element i + 1.     *)

\* std::accumulate(v.begin(), v.end(), std::string(""))
RECURSIVE accumulate(_)
accumulate(v) == IF v = <<>> THEN <<>> ELSE Head(v) \o accumulate(Tail(v))

\* std::string Dice::get_letters()
get_letters(D) ==
    accumulate([i \in 1..Len(D.dice) |-> D.dice[D.positions[i] + 1][D.die_faces[i] + 1]])

\* void Dice::swap_dice(int i, int j)
swap_dice(D, i, j) ==
    [D EXCEPT !.positions = [@ EXCEPT ![i + 1] = D.positions[j + 1],
                                      ![j + 1] = D.positions[i + 1]],
              !.die_faces = [@ EXCEPT ![i + 1] = D.die_faces[j + 1],
                                      ![j + 1] = D.die_faces[i + 1]]]

\* void Dice::roll(int i), rand() returning r
roll_die(D, i, r) ==
    [D EXCEPT !.die_faces[i + 1] = r % Len(D.dice[D.positions[i + 1] + 1])]

\* void Dice::scramble(): the loop from max down, rs[max] the rand() drawn
\* for max
RECURSIVE scramble(_, _, _)
scramble(D, max, rs) ==
    IF max > 0 THEN scramble(swap_dice(D, rs[max] % max, max), max - 1, rs) ELSE D

\* the loop of Dice::roll(): positions[i] = i; roll(i), fs[i + 1] the rand()
\* drawn for die i
RECURSIVE roll_loop(_, _, _)
roll_loop(D, i, fs) ==
    IF i >= Len(D.dice) THEN D
    ELSE roll_loop(roll_die([D EXCEPT !.positions[i + 1] = i], i, fs[i + 1]), i + 1, fs)

\* void Dice::roll()
roll(D, fs, rs) == scramble(roll_loop(D, 0, fs), Len(D.dice) - 1, rs)

\* Dice::Dice(dice), whose own roll() the explicit roll() of the generator
\* overwrites, and best.roll()
NewDice(dice, fs, rs) ==
    roll([dice |-> dice, positions |-> [i \in 1..Len(dice) |-> 0],
          die_faces |-> [i \in 1..Len(dice) |-> 0]], fs, rs)

\* lines 75-78: the number of tiles to fill
max_letters(grs) ==
    IF grs.scoring_rules.random_board_size = 0
       \/ tilesSet(grs.grid) < grs.scoring_rules.random_board_size
    THEN tilesSet(grs.grid)
    ELSE grs.scoring_rules.random_board_size

\* lines 83-90: the dice after random_shuffle put them in the order perm
\* and the extra dice are erased
shuffled_dice(grs, perm) ==
    LET ld   == grs.letters
        dice == IF ld.shuffle_dice THEN [i \in 1..Len(ld.dice) |-> ld.dice[perm[i]]]
                                   ELSE ld.dice
    IN  IF Len(dice) > max_letters(grs) THEN SubSeq(dice, 1, max_letters(grs)) ELSE dice

\* std::string generate_simple_dice_board(grs); fs[i] is the rand() drawn
\* for the i-th die
generate_simple_dice_board(grs, perm, fs) ==
    LET dice == shuffled_dice(grs, perm)
    IN  accumulate([i \in 1..Len(dice) |-> dice[i][(fs[i] % Len(dice[i])) + 1]])

\* lines 112-121 and 281-291: drawing without replacement, from tile i on;
\* a carries the letters as swapped so far and the tiles drawn
RECURSIVE draw_without_replacement(_, _, _, _)
draw_without_replacement(a, i, max, rs) ==
    IF i >= max \/ i = Len(a.letters) THEN a
    ELSE LET j == i + (rs[i + 1] % (Len(a.letters) - i))
         IN  draw_without_replacement(
                 [letters |-> [a.letters EXCEPT ![i + 1] = a.letters[j + 1],
                                                ![j + 1] = a.letters[i + 1]],
                  drawn   |-> Append(a.drawn, a.letters[j + 1])],
                 i + 1, max, rs)

\* the tiles both propensity generators start from; rs[i + 1] is the rand()
\* drawn for tile i
draw_tiles(grs, rs) ==
    LET letters == grs.letters.propensity_list
    IN  IF grs.letters.sample_without_replacement
        THEN draw_without_replacement([letters |-> letters, drawn |-> <<>>],
                                      0, max_letters(grs), rs)
        ELSE [letters |-> letters,
              drawn   |-> [i \in 1..max_letters(grs) |->
                              letters[(rs[i] % Len(letters)) + 1]]]

\* std::string generate_simple_prop_board(grs)
generate_simple_prop_board(grs, rs) == accumulate(draw_tiles(grs, rs).drawn)

\* std::string generate_simple_board(grs), for the methods Dice and
\* LetterPropensity
generate_simple_board(grs, perm, rs) ==
    IF grs.letters.generation_method = "Dice"
    THEN generate_simple_dice_board(grs, perm, rs)
    ELSE IF grs.letters.generation_method = "LetterPropensity"
    THEN generate_simple_prop_board(grs, rs)
    ELSE <<>>

\* int max_duds = 200
max_duds == 200

\* changes only appears in 250 / changes, which is 0 from 251 on: the
\* counter is kept up to this value
MaxChanges == 251

\* size_t values: a number, or -1 for SIZE_MAX (the value of -reverse_target
\* when reverse_target is true); a < b for two of them
size_less(a, b) == IF a = -1 THEN FALSE ELSE IF b = -1 THEN TRUE ELSE a < b

\* lines 216-225: sort, erase(unique(..., equal_words)), then the number of
\* distinct words and the sum of the score of the first Solution of each,
\* the one with the highest score
RECURSIVE sum_best_scores(_, _)
sum_best_scores(sols, words) ==
    IF words = {} THEN 0
    ELSE LET w     == CHOOSE x \in words : TRUE
             score == CHOOSE m \in {sols[k].score : k \in {h \in 1..Len(sols) : sols[h].word = w}} :
                         \A k \in 1..Len(sols) : sols[k].word = w => sols[k].score <= m
         IN  score + sum_best_scores(sols, words \ {w})

board_result(S) ==
    LET words == {S.solutions[k].word : k \in 1..Len(S.solutions)}
    IN  [S |-> S, board_score |-> Cardinality(words),
         board_points |-> sum_best_scores(S.solutions, words)]

\* the test of lines 232-237 without its third alternative: only a
\* candidate that is better in words or in points is taken
accepts_improving(g, board_score, board_points) ==
    \/ /\ g.reverse_target
       /\ \/ size_less(board_score, g.best_score)
          \/ size_less(board_points, g.best_points)
    \/ /\ ~g.reverse_target
       /\ \/ size_less(g.best_score, board_score)
          \/ size_less(g.best_points, board_points)

\* lines 232-237: is the candidate taken as the new best.  A size_t is
\* held as its value, SIZE_MAX as -1: the two are congruent modulo 2^64,
\* hence modulo 2^32, so the integer difference is the int the cast gives
\* as long as it lies within the range of int
accepts(g, board_score, board_points) ==
    \/ /\ g.reverse_target
       /\ \/ size_less(board_score, g.best_score)
          \/ size_less(board_points, g.best_points)
          \/ board_score - g.best_score < 250 \div g.changes
    \/ /\ ~g.reverse_target
       /\ \/ size_less(g.best_score, board_score)
          \/ size_less(g.best_points, board_points)
          \/ g.best_score - board_score < 250 \div g.changes

\* lines 248-251: does the loop go on
goes_on(g) ==
    /\ g.duds < max_duds
    /\ \/ /\ ~g.reverse_target
          /\ (size_less(g.best_score, g.min_words) \/ size_less(g.best_points, g.min_score))
       \/ /\ g.reverse_target
          /\ (size_less(g.min_words, g.best_score) \/ size_less(g.min_score, g.best_points))

\* the end of an iteration without pool = save_pool: a refused candidate
\* leaves the pool as the exchange made it
climb_keep_pool(g, tmp, tmp_pool, tmp_letters, r) ==
    LET g1 == IF accepts(g, r.board_score, r.board_points)
              THEN [g EXCEPT !.best = tmp, !.pool = tmp_pool, !.letters = tmp_letters,
                             !.best_score = r.board_score,
                             !.best_points = r.board_points, !.duds = 0,
                             !.changes = Min(@ + 1, MaxChanges)]
              ELSE [g EXCEPT !.duds = @ + 1, !.pool = tmp_pool]
    IN  IF goes_on(g1) THEN g1 ELSE [g1 EXCEPT !.pc = "done", !.result = g1.letters]

\* lines 233-254 (362-372 of generate_prop_board): the end of one iteration,
\* for the candidate tmp (with pool tmp_pool) solved as r, and the return
\* when the loop ends
climb(g, tmp, tmp_pool, tmp_letters, r) ==
    LET g1 == IF accepts(g, r.board_score, r.board_points)
              THEN [g EXCEPT !.best = tmp, !.pool = tmp_pool, !.letters = tmp_letters,
                             !.best_score = r.board_score,
                             !.best_points = r.board_points, !.duds = 0,
                             !.changes = Min(@ + 1, MaxChanges)]
              ELSE [g EXCEPT !.duds = @ + 1]
    IN  IF goes_on(g1) THEN g1 ELSE [g1 EXCEPT !.pc = "done", !.result = g1.letters]

\* lines 169-199 of generate_dice_board and 258-309 of generate_prop_board:
\* the generator before its loop; perm is the order random_shuffle gave, fs
\* and rs the rand() values of the first roll or draw
climb_start(grs, min_words, min_score, reverse_target, perm, fs, rs) ==
    LET method == grs.letters.generation_method
        drawn  == draw_tiles(grs, fs)
        swr    == grs.letters.sample_without_replacement
        pool   == IF method = "LetterPropensity" /\ swr
                  THEN SubSeq(drawn.letters, Len(drawn.drawn) + 1, Len(drawn.letters))
                  ELSE <<>>
        best   == IF method = "Dice" THEN NewDice(shuffled_dice(grs, perm), fs, rs)
                                     ELSE drawn.drawn
        g      == [pc |-> "loop", grs |-> grs, method |-> method,
                   min_words |-> min_words, min_score |-> min_score,
                   reverse_target |-> reverse_target,
                   is_anagram |-> (grs.grid.tile_adjacency = "Full"),
                   best |-> best, pool |-> pool,
                   letters |-> IF method = "Dice" THEN get_letters(best)
                                                  ELSE accumulate(best),
                   num |-> IF method = "Dice" THEN Len(best.dice) ELSE Len(best),
                   best_score |-> IF reverse_target THEN -1 ELSE 0,
                   best_points |-> IF reverse_target THEN -1 ELSE 0,
                   duds |-> 0, changes |-> 1, result |-> <<>>]
    IN  IF method = "LetterPropensity" /\ g.is_anagram /\ swr /\ pool = <<>>
        THEN [g EXCEPT !.pc = "done", !.result = g.letters]
        ELSE g

\* lines 205-215: the candidate of generate_dice_board for the rand()
\* values coin, r1, r2
dice_candidate(g, coin, r1, r2) ==
    IF g.is_anagram \/ coin % 2 # 0
    THEN roll_die(g.best, r1 % g.num, r2)
    ELSE swap_dice(g.best, r1 % g.num, r2 % g.num)

\* lines 316-336: the candidate of generate_prop_board and the pool it
\* leaves
prop_candidate(g, coin, r1, r2) ==
    LET swr == g.grs.letters.sample_without_replacement
        i   == r1 % g.num
    IN  IF g.is_anagram \/ (coin % 2 # 0 /\ ~(swr /\ Len(g.pool) = 0))
        THEN IF swr
             THEN LET j == r2 % Len(g.pool)
                  IN  [tmp  |-> [g.best EXCEPT ![i + 1] = g.pool[j + 1]],
                       pool |-> [g.pool EXCEPT ![j + 1] = g.best[i + 1]]]
             ELSE LET j == r2 % Len(g.grs.letters.propensity_list)
                  IN  [tmp  |-> [g.best EXCEPT ![i + 1] = g.grs.letters.propensity_list[j + 1]],
                       pool |-> g.pool]
        ELSE LET j == r2 % g.num
             IN  [tmp  |-> [g.best EXCEPT ![i + 1] = g.best[j + 1], ![j + 1] = g.best[i + 1]],
                  pool |-> g.pool]

-----------------------------------------------------------------------------
(* The solver as a state machine: the driver loads the dictionary, then    *)
(* solves boards and re-scores paths on one Solver object                  *)
(* (solver.cpp: do_solve_boards, do_score_boards, do_analyze_boards).      *)

\* the members of the Solver object that solve changes
SolverState == [solutions |-> solutions, cur_len |-> cur_len, used |-> used,
                path |-> path, wildcard |-> wildcard]

idleRest == <<vin, vout, gen, grid, dlx>>

\* no validation has been asked for; a new Validator
NoCall == [call |-> "none"]

NoResult == [result |-> FALSE, V |-> NewValidator]

\* no board has been asked for
NoGen == [pc |-> "idle"]

SolverInit ==
    /\ dict = EmptyTrie
    /\ solutions = NewSolver.solutions
    /\ cur_len = NewSolver.cur_len
    /\ used = NewSolver.used
    /\ path = NewSolver.path
    /\ wildcard = NewSolver.wildcard
    /\ board = NoBoard
    /\ added = {}
    /\ rules = NoRules
    /\ rescored = NoSolution
    /\ op = <<"new">>
    /\ vin = NoCall
    /\ vout = NoResult
    /\ gen = NoGen
    /\ grid = NewGameGrid
    /\ dlx = NewDLX

\* void Solver::add_word(const char *word); the dictionary is loaded before
\* the first board is solved
AddWord(w) ==
    /\ board = NoBoard
    /\ Cardinality(added \cup {w}) <= MaxWords
    /\ dict' = Trie_add_word(dict, TrieRoot, w)
    /\ added' = added \cup {w}
    /\ op' = <<"add_word">>
    /\ UNCHANGED <<solutions, board, used, path, cur_len, wildcard, rules, rescored>>
    /\ UNCHANGED idleRest

\* s.solve(&b, *grs.scoring_rules) on a board just built from a line; op
\* tells whether the object held solutions of an earlier board
Solve(letters, g, sr) ==
    LET b == SolverBoardOf[<<letters, g>>]
        S == solve(SolverState, dict, b, sr)
    IN  /\ board' = b
        /\ rules' = sr
        /\ solutions' = S.solutions
        /\ cur_len' = S.cur_len
        /\ used' = S.used
        /\ path' = S.path
        /\ wildcard' = S.wildcard
        /\ rescored' = NoSolution
        /\ op' = IF solutions # <<>> THEN <<"solve_again">> ELSE <<"solve">>
        /\ UNCHANGED <<dict, added>>
        /\ UNCHANGED idleRest

\* s.score_solution(b, sr, begin, end) on the path of the i-th emitted Solution
Rescore(i) ==
    /\ board # NoBoard
    /\ i \in 1..Len(solutions)
    /\ rescored' = score_solution(board, rules, wildcard, solutions[i].positions)
    /\ op' = <<"score_solution", i>>
    /\ UNCHANGED <<dict, solutions, board, used, path, cur_len, wildcard, added, rules>>
    /\ UNCHANGED idleRest

\* one Solver per board: dictionary, one solve, then re-scoring
SolverNext ==
    \/ \E w \in SolverWords : AddWord(w)
    \/ \E letters \in SolverBoards, g \in SolverGrids, sr \in SolverRules :
          board = NoBoard /\ Solve(letters, g, sr)
    \/ \E i \in 1..Len(solutions) : Rescore(i)

Spec == SolverInit /\ [][SolverNext]_vars

\* the boards and rules of the runs that solve board after board on one object
ResolveBoards ==
    { <<"A","T","A">>, <<"?","T">>, <<":","T","a",";","?">> }

ResolveGrids ==
    { json_grid(Line3, "Straight"),
      json_grid(Line3, "Full") }

ResolveRules == {sr \in SolverRules : sr.min_word_length # 3 \/ sr.qu_length = 2}

\* one Solver for a stream of boards, as the loops of solver.cpp run it
ResolveNext ==
    \/ \E w \in SolverWords : AddWord(w)
    \/ \E letters \in ResolveBoards, g \in ResolveGrids, sr \in ResolveRules :
          Solve(letters, g, sr)

ResolveSpec == SolverInit /\ [][ResolveNext]_vars

\* a path without a repeated tile
SimplePath(p) == \A i, j \in 1..Len(p) : i # j => p[i] # p[j]

\* all simple paths of a board of n tiles: sequences of distinct tile indices
RECURSIVE PathsOfLength(_, _)
PathsOfLength(n, k) ==
    IF k = 0 THEN {<<>>}
    ELSE {Append(p, i) : p \in PathsOfLength(n, k - 1), i \in 0..(n - 1)}

SimplePaths(n) ==
    {p \in UNION {PathsOfLength(n, k) : k \in 1..n} : SimplePath(p)}

-----------------------------------------------------------------------------
(* Scoring alone: the calls of score_solution that _solve makes at a       *)
(* terminal node (scramble.cpp 498-499), over a wider range of rules.      *)

\* board strings for scoring: a seven-letter tile under a word multiplier,
\* letter and word multipliers with a wildcard, a Q, stacked multipliers
ScoreBoards ==
    { <<";","T","a","a","a","a","a","a">>,
      <<":","T",";","A","?">>,
      <<"Q","A",";","T">>,
      <<";",";","A",":",":",":","T","?">> }

\* length bonuses 0.25, 1.5 and 10.5; other lengths have none
ScoreBonuses == (2 :> <<1, 4>>) @@ (3 :> <<3, 2>>) @@ (7 :> <<21, 2>>)

\* <<min_word_length, short_word_length>>
ScoreLengths == { <<0, 0>>, <<2, 3>>, <<3, 2>> }

\* <<q_is_qu, qu_length>>
ScoreQu == { <<TRUE, 1>>, <<TRUE, 2>>, <<FALSE, 1>> }

ScoreRules ==
    { [q_is_qu |-> qu[1], qu_length |-> qu[2], min_word_length |-> ln[1],
       short_word_length |-> ln[2], short_word_points |-> 5, short_word_multiplier |-> sm,
       wild_card_points |-> wp, round_bonus_up |-> ru, multiply_length_bonus |-> ml,
       random_board_size |-> 0, letter_values |-> LetterValues, length_bonuses |-> ScoreBonuses] :
      qu \in ScoreQu, ln \in ScoreLengths, sm \in BOOLEAN, wp \in BOOLEAN,
      ru \in BOOLEAN, ml \in BOOLEAN }

\* the letters _solve may have put for a wildcard when it scores
ScoreWildcards == { "A", "Q", "Z" }

ScoreBoardOf == [letters \in ScoreBoards |-> Board(letters, NoGrid)]

\* new_solution = score_solution(*board, sr, path, path + cur_len) for the
\* walk p, with letter c in the wildcard buffer at the '?' tiles of p
ScorePath(letters, sr, p, c) ==
    LET b  == ScoreBoardOf[letters]
        wc == [i \in 0..(b.board_size - 1) |->
                 IF tile(b, i) = <<"?">> /\ \E k \in 1..Len(p) : p[k] = i
                 THEN c ELSE NUL]
    IN  /\ board' = b
        /\ rules' = sr
        /\ wildcard' = wc
        /\ rescored' = score_solution(b, sr, wc, p)
        /\ op' = <<"score_path">>
        /\ UNCHANGED <<dict, solutions, used, path, cur_len, added>>
        /\ UNCHANGED idleRest

\* one scoring call per board
ScoreNext ==
    \E letters \in ScoreBoards, sr \in ScoreRules, c \in ScoreWildcards :
        \E p \in SimplePaths(ScoreBoardOf[letters].board_size) :
            /\ board = NoBoard
            /\ \A k \in 1..Len(p) : tile(ScoreBoardOf[letters], p[k]) # <<>>
            /\ ScorePath(letters, sr, p, c)

ScoreSpec == SolverInit /\ [][ScoreNext]_vars

-----------------------------------------------------------------------------
(* The Validator's dice checks, one call on a new Validator.               *)

MaxDice == 3

MaxWordLen == 3

MaxTiles == 3

\* the dice a word is checked against: single letters, a wildcard, faces of
\* two letters, faces of a wildcard and a letter
WordDicePool ==
    << << <<"A">>, <<"H">> >>,
       << <<"H">> >>,
       << <<"?", "H">> >>,
       << <<"A", "H">>, <<"A">> >>,
       << <<"?">> >>,
       << <<"H", "A">>, <<"?", "A">> >> >>

\* the dice a board is checked against
BoardDicePool ==
    << << <<"A">>, <<"H">> >>,
       << <<"H">> >>,
       << <<"A", "H">>, <<"A">> >>,
       << <<"?">> >> >>

\* the sets of at most MaxDice dice of a pool, each in the order of the pool
DiceSets(pool) ==
    UNION { { [i \in 1..n |-> pool[ix[i]]] :
                ix \in {f \in [1..n -> 1..Len(pool)] :
                           \A i \in 1..(n - 1) : f[i] <= f[i + 1]} } :
            n \in 1..MaxDice }

\* the words of at most n letters over a set of letters
RECURSIVE StringsUpTo(_, _)
StringsUpTo(letters, n) ==
    IF n = 0 THEN {<<>>}
    ELSE LET shorter == StringsUpTo(letters, n - 1)
         IN  shorter \cup {Append(w, c) : w \in shorter, c \in letters}

ValidatorWords == StringsUpTo({"A", "H"}, MaxWordLen) \ {<<>>}

ValidatorBoards ==
    StringsUpTo({<<"A">>, <<"H">>, <<"A", "H">>, <<"?">>}, MaxTiles)

\* v.validateDiceWord(dice, word)
ValidateDiceWord(dice, word) ==
    /\ vin = NoCall
    /\ vin' = [call |-> "validateDiceWord", dice |-> dice, word |-> word]
    /\ vout' = validateDiceWord(vout.V, dice, word)
    /\ UNCHANGED <<solverVars, op, gen, grid, dlx>>

\* v.validateDiceBoard(dice, board_tiles)
ValidateDiceBoard(dice, board_tiles) ==
    /\ vin = NoCall
    /\ vin' = [call |-> "validateDiceBoard", dice |-> dice, board_tiles |-> board_tiles]
    /\ vout' = validateDiceBoard(vout.V, dice, board_tiles)
    /\ UNCHANGED <<solverVars, op, gen, grid, dlx>>

DiceWordNext ==
    \E dice \in DiceSets(WordDicePool), word \in ValidatorWords :
        ValidateDiceWord(dice, word)

DiceWordSpec == SolverInit /\ [][DiceWordNext]_vars

DiceBoardNext ==
    \E dice \in DiceSets(BoardDicePool), board_tiles \in ValidatorBoards :
        ValidateDiceBoard(dice, board_tiles)

DiceBoardSpec == SolverInit /\ [][DiceBoardNext]_vars

-----------------------------------------------------------------------------
(* The generators and the validator: a board is made for a game, by        *)
(* generate_simple_board or by generate_board, and the board returned is   *)
(* given to Validator::validate with interpret false.                      *)

\* the values a rand() of the model returns
MaxRand == 1

\* the dictionary of the games
GenWords == { <<"A","T">>, <<"T","A">>, <<"Z">> }

RECURSIVE add_words(_, _)
add_words(d, words) ==
    IF words = {} THEN d
    ELSE LET w == CHOOSE x \in words : TRUE
         IN  add_words(Trie_add_word(d, TrieRoot, w), words \ {w})

GenDict == add_words(EmptyTrie, GenWords)

Line2 == { <<0, 0>>, <<0, 1>> }

GenScoring == [NoRules EXCEPT !.letter_values = LetterValues]

\* a game: the distribution as setDiceLetters / setPropensityLetters leave
\* it, the grid and the scoring rules
Game(method, letters, without_replacement, adjacency) ==
    [letters |-> [generation_method |-> method,
                  dice |-> IF method = "Dice" THEN setDiceLetters(letters) ELSE <<>>,
                  propensity_list |-> IF method = "LetterPropensity"
                                      THEN setPropensityLetters(letters) ELSE <<>>,
                  shuffle_dice |-> TRUE,
                  sample_without_replacement |-> without_replacement],
     grid |-> json_grid(Line2, adjacency),
     scoring_rules |-> GenScoring]

\* two dice, one with two faces; a die whose face is an empty tile followed
\* by a lower-case letter; multipliers, a Qu and an empty tile on an anagram
\* grid; letter pools drawn without replacement, one of them no larger than
\* the grid and with a wildcard, and one drawn with replacement
GenGames ==
    { Game("Dice", <<"A", ",", "T", "Z">>, TRUE, "Straight"),
      Game("Dice", <<"T", ",", ".", "a">>, TRUE, "Straight"),
      Game("Dice", <<"Q", "u", ":", "A", ",", ";", ".">>, TRUE, "Full"),
      Game("LetterPropensity", <<"A", "T", "Z">>, TRUE, "Straight"),
      Game("LetterPropensity", <<"T", "?">>, TRUE, "Full"),
      Game("LetterPropensity", <<":", "T", ".", "a">>, FALSE, "Full") }

\* min_words, min_score, reverse_target
GenTargets == { <<1, 0, FALSE>>, <<2, 10, FALSE>>, <<0, 0, TRUE>> }

Rands(n) == [1..n -> 0..MaxRand]

Orders(n) == {p \in [1..n -> 1..n] : \A i, j \in 1..n : i # j => p[i] # p[j]}

\* generate_board alone, for two dice of which one has a face that is in
\* no word: the boards with the A have two words, the others none
ClimbGames == { Game("Dice", <<"A", "Q", ",", "T">>, TRUE, "Straight") }

\* the faces and pool tiles of a game, and the boards they can make
GameTiles(grs) ==
    {grs.letters.dice[i][j] : <<i, j>> \in
        {x \in (1..Len(grs.letters.dice)) \X (1..3) : x[2] <= Len(grs.letters.dice[x[1]])}}
    \cup {grs.letters.propensity_list[i] : i \in 1..Len(grs.letters.propensity_list)}

GameBoards(grs) ==
    {accumulate(t) : t \in UNION {[1..k -> GameTiles(grs)] : k \in 0..max_letters(grs)}}

\* Board b(letters, grs.grid); s.solve(&b, *grs.scoring_rules) and the count
\* of its solutions, for every board of every game, computed once: solve
\* starts by replacing the buffers and clearing the solutions, so what it
\* leaves is given by the dictionary, the board and the rules
GenSolved ==
    [in \in UNION {{<<grs, letters>> : letters \in GameBoards(grs)} :
                      grs \in GenGames \cup ClimbGames} |->
        LET b == Board(in[2], in[1].grid)
        IN  [b |-> b, r |-> board_result(solve(NewSolver, GenDict, b, in[1].scoring_rules))]]

GenInit ==
    /\ dict = GenDict
    /\ added = GenWords
    /\ solutions = NewSolver.solutions
    /\ cur_len = NewSolver.cur_len
    /\ used = NewSolver.used
    /\ path = NewSolver.path
    /\ wildcard = NewSolver.wildcard
    /\ board = NoBoard
    /\ rules = NoRules
    /\ rescored = NoSolution
    /\ op = <<"new">>
    /\ vin = NoCall
    /\ vout = NoResult
    /\ gen = NoGen
    /\ grid = NewGameGrid
    /\ dlx = NewDLX

\* generate_simple_board(grs)
GenerateSimple(grs, perm, rs) ==
    /\ gen = NoGen
    /\ gen' = [pc |-> "done", grs |-> grs, result |-> generate_simple_board(grs, perm, rs)]
    /\ op' = <<"generate_simple_board">>
    /\ UNCHANGED <<solverVars, vin, vout, grid, dlx>>

\* generate_board(grs, s, min_words, min_score, reverse_target) up to its
\* loop, or to the return before it.  observed is no variable of the code:
\* it records board_score and board_points of every candidate the run has
\* evaluated
GenerateBoard(grs, target, perm, fs, rs) ==
    /\ gen = NoGen
    /\ gen' = [observed |-> {}]
               @@ climb_start(grs, target[1], target[2], target[3], perm, fs, rs)
    /\ op' = <<"generate_board">>
    /\ UNCHANGED <<solverVars, vin, vout, grid, dlx>>

\* one iteration of the do-while loop: the candidate, its solve by the
\* Solver, the test, and the loop condition
Climb(coin, r1, r2) ==
    /\ gen.pc = "loop"
    /\ \E c \in {IF gen.method = "Dice"
                   THEN LET tmp == dice_candidate(gen, coin, r1, r2)
                        IN  [tmp |-> tmp, pool |-> gen.pool, letters |-> get_letters(tmp)]
                   ELSE LET pc == prop_candidate(gen, coin, r1, r2)
                        IN  [tmp |-> pc.tmp, pool |-> pc.pool, letters |-> accumulate(pc.tmp)]} :
         \E s \in {GenSolved[<<gen.grs, c.letters>>]} :
           /\ board' = s.b
           /\ rules' = gen.grs.scoring_rules
           /\ solutions' = s.r.S.solutions
           /\ cur_len' = s.r.S.cur_len
           /\ used' = s.r.S.used
           /\ path' = s.r.S.path
           /\ wildcard' = s.r.S.wildcard
           /\ gen' = [observed |-> gen.observed \cup {<<s.r.board_score, s.r.board_points>>}]
                      @@ climb(gen, c.tmp, c.pool, c.letters, s.r)
    /\ op' = <<"climb">>
    /\ UNCHANGED <<dict, added, rescored, vin, vout, grid, dlx>>

\* Validator().validate(grs, board, false) on the board returned
Validate ==
    /\ gen.pc = "done"
    /\ vin = NoCall
    /\ vin' = [call |-> "validate", grs |-> gen.grs, to_check |-> gen.result]
    /\ vout' = validate_board(NewValidator, gen.grs, gen.result)
    /\ op' = <<"validate">>
    /\ UNCHANGED <<solverVars, gen, grid, dlx>>

Climbs == \E coin, r1, r2 \in 0..MaxRand : Climb(coin, r1, r2)

GenNext ==
    \/ \E grs \in GenGames : \E perm \in Orders(Len(grs.letters.dice)) :
          \E rs \in Rands(2) : GenerateSimple(grs, perm, rs)
    \/ \E grs \in GenGames, target \in GenTargets :
          \E perm \in Orders(Len(grs.letters.dice)) :
             \E fs \in Rands(2), rs \in Rands(1) : GenerateBoard(grs, target, perm, fs, rs)
    \/ Climbs
    \/ Validate

GenSpec == GenInit /\ [][GenNext]_vars

\* generate_board alone, for the game of two dice of which one has a face
\* that is in no word
ClimbNext ==
    \/ \E grs \in ClimbGames, target \in GenTargets :
          \E perm \in Orders(Len(grs.letters.dice)) :
             \E fs \in Rands(2), rs \in Rands(1) : GenerateBoard(grs, target, perm, fs, rs)
    \/ Climbs

ClimbSpec == GenInit /\ [][ClimbNext]_vars

\* the loop is not left waiting: an iteration that can be made is made
GenFairSpec == GenSpec /\ WF_vars(Climbs)

-----------------------------------------------------------------------------
(* What the solver claims speak of                                         *)

\* the words of the dictionary: the uppercase form of every all-letter word
\* handed to add_word
DictionaryWords ==
    {UpperString(w) : w \in {v \in added : \A i \in 1..Len(v) : isalpha(v[i])}}

ValidPath(b, p) == \A i \in 1..Len(p) : p[i] \in 0..(b.board_size - 1)

AdjacentPath(b, p) == \A i \in 1..(Len(p) - 1) : is_adjacent(b, p[i], p[i + 1])

\* the uppercased letters of the tiles of a path, in order, '?' kept
RECURSIVE PathPattern(_, _)
PathPattern(b, p) ==
    IF p = <<>> THEN <<>> ELSE UpperString(tile(b, Head(p))) \o PathPattern(b, Tail(p))

\* w is the pattern pat with a letter put for each '?' and, when q, a U
\* inserted after each Q
RECURSIVE Spells(_, _, _)
Spells(q, pat, w) ==
    IF pat = <<>> THEN w = <<>>
    ELSE IF w = <<>> THEN FALSE
    ELSE IF ~(Head(pat) = "?" /\ Head(w) \in UpperSet) /\ Head(pat) # Head(w) THEN FALSE
    ELSE IF q /\ Head(w) = "Q"
         THEN Len(w) >= 2 /\ w[2] = "U" /\ Spells(q, Tail(pat), SubSeq(w, 3, Len(w)))
         ELSE Spells(q, Tail(pat), Tail(w))

\* the walks the solver is to find: simple, through adjacent non-empty tiles
Walks(b) ==
    {p \in SimplePaths(b.board_size) :
        AdjacentPath(b, p) /\ \A i \in 1..Len(p) : tile(b, p[i]) # <<>>}

\* how often the solution list holds path p with word w
Emitted(p, w) ==
    Cardinality({k \in 1..Len(solutions) :
                    solutions[k].positions = p /\ solutions[k].word = w})

\* the number of Q in a word
RECURSIVE CountQ(_)
CountQ(w) == IF w = <<>> THEN 0 ELSE (IF Head(w) = "Q" THEN 1 ELSE 0) + CountQ(Tail(w))

\* the length the scorer gives a word of a path: a Q with its inserted U
\* counts two letters only when quLength is 2
ScoredLength(sr, w) ==
    IF sr.q_is_qu /\ sr.qu_length # 2 THEN Len(w) - CountQ(w) ELSE Len(w)

\* C1: Solver soundness. Every Solution of the list has a path of valid,
\* pairwise distinct tile indices whose consecutive tiles are adjacent, and
\* its word is the path's letters (wildcards substituted, Qu expanded) and
\* is a word of the dictionary.
C1_Soundness ==
    \A k \in 1..Len(solutions) :
        LET s == solutions[k]
        IN  /\ s.positions # <<>>
            /\ ValidPath(board, s.positions)
            /\ SimplePath(s.positions)
            /\ AdjacentPath(board, s.positions)
            /\ Spells(rules.q_is_qu, PathPattern(board, s.positions), s.word)
            /\ s.word \in DictionaryWords

\* a solve found a word on a path of several tiles, through a wildcard, on a
\* board with a matrix that does not connect every pair of tiles
C1_Witness ==
    /\ op = <<"solve">>
    /\ board.adj_matrix.has_matrix
    /\ \E i, j \in 0..(board.board_size - 1) : i # j /\ ~is_adjacent(board, i, j)
    /\ \E k \in 1..Len(solutions) :
          /\ Len(solutions[k].positions) >= 2
          /\ \E i \in 1..Len(solutions[k].positions) :
                tile(board, solutions[k].positions[i]) = <<"?">>

\* C2 as stated: every walk and every dictionary word it spells whose number
\* of letters is at least minWordLength is in the list exactly once.
C2_AsStated ==
    (op = <<"solve">>) =>
        \A p \in Walks(board), w \in DictionaryWords :
            (Spells(rules.q_is_qu, PathPattern(board, p), w)
                /\ Len(w) >= rules.min_word_length)
            => Emitted(p, w) = 1

\* C2 (amended): Solver completeness. Every walk and every dictionary word
\* it spells whose scored length (a Qu counting quLength letters) is at
\* least minWordLength is in the list exactly once.
C2_Completeness ==
    (op = <<"solve">>) =>
        \A p \in Walks(board), w \in DictionaryWords :
            (Spells(rules.q_is_qu, PathPattern(board, p), w)
                /\ ScoredLength(rules, w) >= rules.min_word_length)
            => Emitted(p, w) = 1

\* a solve on a board where the same word is spelled by two walks, and one
\* where a walk through a wildcard and a Q spells a word
C2_Witness ==
    /\ op = <<"solve">>
    /\ \E p \in Walks(board), w \in DictionaryWords :
          /\ Len(p) >= 2
          /\ Spells(rules.q_is_qu, PathPattern(board, p), w)
          /\ "?" \in {PathPattern(board, p)[i] : i \in 1..Len(p)}
          /\ CountQ(w) > 0
          /\ ScoredLength(rules, w) >= rules.min_word_length
          /\ rules.min_word_length > 0

\* C8 as stated: re-scoring the path of an emitted Solution after solve has
\* returned gives the word and the score of that Solution.
C8_Rescore ==
    \A i \in 1..Len(solutions) :
        (op = <<"score_solution", i>>) =>
            /\ rescored.word = solutions[i].word
            /\ rescored.score = solutions[i].score

\* C9: Determinism and per-call reset. After any solve, whatever the object
\* solved before, the solution list and the scratch buffers are those of a
\* new Solver with the same dictionary solving the same board and rules.
C9_Reset ==
    (board # NoBoard) => SolverState = solve(NewSolver, dict, board, rules)

\* a solve that found words on an object that still held the solutions of
\* an earlier board and wildcard choices
C9_Witness ==
    /\ op = <<"solve_again">>
    /\ solutions # <<>>
    /\ \E i \in 0..(board.board_size - 1) : wildcard[i] # NUL

\* the product of the word multipliers of the tiles of a path
RECURSIVE WordMultipliers(_, _)
WordMultipliers(b, p) ==
    IF p = <<>> THEN 1 ELSE word_mult(b, Head(p)) * WordMultipliers(b, Tail(p))

\* the length bonus the rules hold for a length, 0 when there is none
BonusOf(sr, n) == IF n \in DOMAIN sr.length_bonuses THEN sr.length_bonuses[n] ELSE <<0, 1>>

\* k is the rational num/den rounded up; k is num/den truncated (num >= 0)
IsCeil(k, num, den) == k * den >= num /\ (k - 1) * den < num

IsTrunc(k, num, den) == k * den <= num /\ (k + 1) * den > num

\* C6: Score formula for regular words. A Solution whose wordLength is at
\* least minWordLength and above shortWordLength has the bonus of its
\* length (0 if absent) and the score letterPoints x wordMultiplier x bonus
\* (multiplyLengthBonus) or letterPoints x wordMultiplier + bonus, rounded
\* up (roundBonusUp) or truncated; 8, 2 and 10.5 give 27 and 168.
C6_RegularScore ==
    (/\ op = <<"score_path">>
     /\ rescored.word_length >= rules.min_word_length
     /\ rescored.word_length > rules.short_word_length)
    => LET s   == rescored
           bn  == BonusOf(rules, s.word_length)
           num == IF rules.multiply_length_bonus
                  THEN s.letter_points * s.word_multiplier * bn[1]
                  ELSE s.letter_points * s.word_multiplier * bn[2] + bn[1]
       IN  /\ s.length_bonus = bn
           /\ IF rules.round_bonus_up THEN IsCeil(s.score, num, bn[2])
                                      ELSE IsTrunc(s.score, num, bn[2])
           /\ (s.letter_points = 8 /\ s.word_multiplier = 2 /\ bn = <<21, 2>>)
              => /\ (~rules.multiply_length_bonus /\ rules.round_bonus_up) => s.score = 27
                 /\ (rules.multiply_length_bonus /\ ~rules.round_bonus_up) => s.score = 168

\* a regular word with letter points 8 under a word multiplier 2 and the
\* bonus 10.5 was scored 27 by adding and rounding up
C6_Witness ==
    /\ op = <<"score_path">>
    /\ rescored.word_length = 7
    /\ rescored.word_length > rules.short_word_length
    /\ rescored.letter_points = 8
    /\ rescored.word_multiplier = 2
    /\ rescored.length_bonus = <<21, 2>>
    /\ ~rules.multiply_length_bonus
    /\ rules.round_bonus_up
    /\ rescored.score = 27

\* C7: Short-word rule. A Solution with minWordLength <= wordLength <=
\* shortWordLength scores shortWordPoints x the product of the path's word
\* multipliers when shortWordMultiplier, and shortWordPoints with a recorded
\* word multiplier 1 otherwise; below minWordLength the score is 0.
C7_ShortWord ==
    (op = <<"score_path">>) =>
        LET s == rescored
        IN  /\ (s.word_length < rules.min_word_length) => s.score = 0
            /\ (/\ s.word_length >= rules.min_word_length
                /\ s.word_length <= rules.short_word_length)
               => IF rules.short_word_multiplier
                  THEN s.score = rules.short_word_points
                                    * WordMultipliers(board, s.positions)
                  ELSE s.score = rules.short_word_points /\ s.word_multiplier = 1

\* a short word on a path whose word multipliers make 6 and whose letters
\* have values and multipliers was scored without the multiplier
C7_Witness ==
    /\ op = <<"score_path">>
    /\ rescored.word_length >= rules.min_word_length
    /\ rescored.word_length <= rules.short_word_length
    /\ ~rules.short_word_multiplier
    /\ WordMultipliers(board, rescored.positions) > 1
    /\ \E k \in 1..Len(rescored.positions) : letter_mult(board, rescored.positions[k]) > 1
    /\ rescored.score = rules.short_word_points

\* a face matches a piece of a word: same length, each character the same
\* or a '?' in the face
FaceMatches(face, piece) ==
    /\ Len(face) = Len(piece)
    /\ \A i \in 1..Len(face) : face[i] = "?" \/ face[i] = piece[i]

\* the word splits into consecutive pieces, each matched by a face of a
\* distinct die among avail
RECURSIVE Spellable(_, _, _)
Spellable(dice, avail, word) ==
    \/ word = <<>>
    \/ \E d \in avail : \E j \in 1..Len(dice[d]) :
          LET n == Len(dice[d][j])
          IN  /\ n >= 1
              /\ n <= Len(word)
              /\ FaceMatches(dice[d][j], SubSeq(word, 1, n))
              /\ Spellable(dice, avail \ {d}, SubSeq(word, n + 1, Len(word)))

\* C3 as stated: validateDiceWord returns true exactly when the word can be
\* split into consecutive pieces, each matched by a face of a distinct die.
C3_DiceWord ==
    (vin.call = "validateDiceWord") =>
        (vout.result <=> Spellable(vin.dice, 1..Len(vin.dice), vin.word))

\* the largest number of tiles from the k-th on that can be given distinct
\* dice among avail, each tile a face of its die
RECURSIVE MaxMatching(_, _, _, _)
MaxMatching(dice, avail, tiles, k) ==
    IF k > Len(tiles) THEN 0
    ELSE LET skip == MaxMatching(dice, avail, tiles, k + 1)
             take == {1 + MaxMatching(dice, avail \ {d}, tiles, k + 1) :
                        d \in {e \in avail : \E j \in 1..Len(dice[e]) : dice[e][j] = tiles[k]}}
         IN  CHOOSE m \in take \cup {skip} : \A o \in take \cup {skip} : o <= m

\* there is an injective assignment of the tiles to dice, each tile a face
\* of its die
Assignable(dice, tiles) ==
    \E f \in [1..Len(tiles) -> 1..Len(dice)] :
        /\ \A a, b \in 1..Len(tiles) : a # b => f[a] # f[b]
        /\ \A a \in 1..Len(tiles) : \E j \in 1..Len(dice[f[a]]) : dice[f[a]][j] = tiles[a]

\* C4: Dice board validation is exact bipartite matching. validateDiceBoard
\* returns true exactly when the tiles can be given distinct dice, each tile
\* a face of its die; maxFlow returns the size of a maximum matching and its
\* loop ends after at most one round per unit of flow and a last one.
C4_DiceBoard ==
    (vin.call = "validateDiceBoard") =>
        LET run == dice_board_flow(vin.dice, vin.board_tiles)
        IN  /\ vout.result <=> Assignable(vin.dice, vin.board_tiles)
            /\ run.flow = MaxMatching(vin.dice, 1..Len(vin.dice), vin.board_tiles, 1)
            /\ run.rounds = run.flow + 1

\* a board was accepted whose first tile is also a face of the die that the
\* second tile needs, with a die left unused
C4_Witness ==
    /\ vin.call = "validateDiceBoard"
    /\ vout.result
    /\ Len(vin.board_tiles) >= 2
    /\ Len(vin.dice) > Len(vin.board_tiles)
    /\ \E j \in 1..Len(vin.dice[1]) : vin.dice[1][j] = vin.board_tiles[1]
    /\ \E j \in 1..Len(vin.dice[1]) : vin.dice[1][j] = vin.board_tiles[2]
    /\ \A d \in 2..Len(vin.dice) : \A j \in 1..Len(vin.dice[d]) :
          vin.dice[d][j] # vin.board_tiles[2]


\* C5: every board a generator returned is accepted by validate
C5_ValidatorSymmetry == (vin.call = "validate") => vout.result

\* C10: the hill-climbing loop, once entered, is left
C10_Termination == (gen.pc = "loop") ~> (gen.pc = "done")

\* a call of generate_dice_board with reverse_target false has returned
MaximizingDone ==
    /\ gen.pc = "done"
    /\ "best" \in DOMAIN gen
    /\ gen.method = "Dice"
    /\ ~gen.reverse_target

\* the solver's count of distinct words and points on the board returned
Reported == GenSolved[<<gen.grs, gen.result>>].r

\* C11: the board generate_dice_board returns meets the target, or the run
\* ended on max_duds duds and no candidate it evaluated had both more words
\* and more points than the board returned
C11_Maximizing ==
    MaximizingDone =>
        \/ Reported.board_score >= gen.min_words /\ Reported.board_points >= gen.min_score
        \/ /\ gen.duds = max_duds
           /\ \A o \in gen.observed :
                 ~(o[1] > Reported.board_score /\ o[2] > Reported.board_points)


-----------------------------------------------------------------------------
(* Solution lists: operator<, equal_words (scramble.h), cmp_solutions and  *)
(* the sort / unique of the commands (solver.cpp), SolutionAnalysis        *)
(* (analyze.cpp)                                                           *)

\* inline bool equal_words(const Solution &a, const Solution &b)
equal_words(a, b) == a.word = b.word

\* operator< with the scores of equal words in rising order
solution_less_rising(a, b) ==
    IF string_less(a.word, b.word) THEN TRUE
    ELSE IF string_less(b.word, a.word) THEN FALSE
    ELSE a.score < b.score

\* inline bool operator<(const Solution &a, const Solution &b)
solution_less(a, b) ==
    IF string_less(a.word, b.word) THEN TRUE
    ELSE IF string_less(b.word, a.word) THEN FALSE
    ELSE a.score > b.score

\* bool cmp_solutions(const Solution &p1, const Solution &p2)
cmp_solutions(p1, p2) ==
    IF p1.score > p2.score THEN TRUE
    ELSE IF p1.score < p2.score THEN FALSE
    ELSE string_less(p1.word, p2.word)

\* v in the order p
permuted(v, p) == [i \in 1..Len(v) |-> v[p[i]]]

\* sort(solutions.begin(), solutions.end()): std::sort leaves the elements
\* in an order in which none is less than an earlier one; the order of
\* elements neither of which is less than the other is not determined, so
\* every such order is a result
sort(v) ==
    { permuted(v, p) : p \in { q \in Orders(Len(v)) :
          \A i, j \in 1..Len(v) : i < j => ~solution_less(v[q[j]], v[q[i]]) } }

\* solutions.erase(unique(solutions.begin(), solutions.end(), equal_words),
\* solutions.end()): of every run of elements with equal words the first is
\* kept
RECURSIVE unique(_)
unique(v) ==
    IF Len(v) < 2 THEN v
    ELSE IF equal_words(v[Len(v) - 1], v[Len(v)])
         THEN unique(SubSeq(v, 1, Len(v) - 1))
         ELSE Append(unique(SubSeq(v, 1, Len(v) - 1)), v[Len(v)])

\* for (i = solutions.begin(); ...) points += i->get_score();
RECURSIVE points_of(_)
points_of(v) == IF v = <<>> THEN 0 ELSE Head(v).score + points_of(Tail(v))

\* std::map<size_t, T>::operator[]: the value at k, and a map that has k
map_at(m, k, none) == IF k \in DOMAIN m THEN m[k] ELSE none

map_touch(m, k, none) == IF k \in DOMAIN m THEN m ELSE (k :> none) @@ m

map_put(m, k, v) == [j \in DOMAIN m \cup {k} |-> IF j = k THEN v ELSE m[j]]

map_add(m, k, n) == map_put(m, k, map_at(m, k, 0) + n)

\* the members of a SolutionAnalysis before the loop, with the two locals
\* of the constructor
NewAnalysis ==
    [word_length_counts |-> <<>>, point_length_counts |-> <<>>,
     word_lengthp_counts |-> <<>>, point_lengthp_counts |-> <<>>,
     position_words |-> <<>>, position_points |-> <<>>,
     best_words |-> <<>>, best_word_points |-> <<>>,
     last_word |-> <<>>, last_word_positions |-> {}]

\* the set cleared for every solution
clear_positions_always(A, i) == [A EXCEPT !.last_word_positions = {}]

\* lines 36-38: if (word != last_word) last_word_positions.clear();
clear_positions(A, i) ==
    IF i.word # A.last_word THEN [A EXCEPT !.last_word_positions = {}] ELSE A

\* lines 40-50: if (best_word_points[n] < score) { best_words[n] = word;
\* best_word_points[n] = score; }, for n the length of the word and for 0
update_best(A, i, n) ==
    IF map_at(A.best_word_points, n, 0) < i.score
    THEN [A EXCEPT !.best_words = map_put(@, n, i.word),
                   !.best_word_points = map_put(@, n, i.score)]
    ELSE [A EXCEPT !.best_word_points = map_touch(@, n, 0)]

\* lines 65-68: for (j = 0; j <= word_length; ++j)
RECURSIVE lengthp_loop(_, _, _)
lengthp_loop(A, i, j) ==
    IF j > Len(i.word) THEN A
    ELSE lengthp_loop([A EXCEPT !.word_lengthp_counts = map_add(@, j, 1),
                                !.point_lengthp_counts = map_add(@, j, i.score)],
                      i, j + 1)

\* the counts made for every solution
count_word_every(A, i) ==
    lengthp_loop(
      [A EXCEPT !.word_length_counts = map_add(map_add(@, Len(i.word), 1), 0, 1),
                !.point_length_counts =
                    map_add(map_add(@, Len(i.word), i.score), 0, i.score),
                !.position_words = map_add(@, 0, 1),
                !.position_points = map_add(@, 0, i.score)],
      i, 0)

\* lines 52-74: the counts of a solution whose word is not the last one
count_word(A, i) ==
    IF i.word # A.last_word
    THEN lengthp_loop(
           [A EXCEPT !.word_length_counts = map_add(map_add(@, Len(i.word), 1), 0, 1),
                     !.point_length_counts =
                         map_add(map_add(@, Len(i.word), i.score), 0, i.score),
                     !.position_words = map_add(@, 0, 1),
                     !.position_points = map_add(@, 0, i.score)],
           i, 0)
    ELSE A

\* lines 76-94: for (pos = i.positions_begin(); pos != i.positions_end();
\* ++pos), p = *pos + 1
RECURSIVE positions_loop(_, _, _)
positions_loop(A, i, k) ==
    IF k > Len(i.positions) THEN A
    ELSE IF (i.positions[k] + 1) \in A.last_word_positions
         THEN positions_loop(A, i, k + 1)
         ELSE positions_loop(
                [A EXCEPT !.position_words = map_add(@, i.positions[k] + 1, 1),
                          !.position_points = map_add(@, i.positions[k] + 1, i.score),
                          !.last_word_positions = @ \cup {i.positions[k] + 1}],
                i, k + 1)

\* one iteration of for (auto const &i : solutions), ending with
\* last_word = word
analyze_solution(A, i) ==
    [positions_loop(
        count_word(update_best(update_best(clear_positions(A, i), i, Len(i.word)), i, 0), i),
        i, 1)
     EXCEPT !.last_word = i.word]

RECURSIVE analyze_loop(_, _, _)
analyze_loop(A, sols, k) ==
    IF k > Len(sols) THEN A ELSE analyze_loop(analyze_solution(A, sols[k]), sols, k + 1)

\* SolutionAnalysis::SolutionAnalysis(b, solutions)
SolutionAnalysis(sols) == analyze_loop(NewAnalysis, sols, 1)


\* the longest list of solutions of one board
MaxSolutions == 3

\* the solutions a board can have: words over two tiles, one of them a
\* prefix of another, paths that share tiles, scores from 0
ListWords == { <<"A">>, <<"A", "T">>, <<"T", "A">> }

ListPaths == { <<0>>, <<0, 1>>, <<2, 1>> }

ListScores == 0..2

ListSolutions ==
    { Solution(w, p, Len(w), n, n, 1, <<0, 1>>) :
        w \in ListWords, p \in ListPaths, n \in ListScores }

\* s.get_solutions() after s.solve(&b, *grs.scoring_rules)
SolutionLists == UNION { [1..n -> ListSolutions] : n \in 0..MaxSolutions }

\* do_analyze_boards, one board: sort, SolutionAnalysis, and with
\* dump_words the count of each word of the list after unique
AnalyzeBoard(sols, sorted, dump_words) ==
    /\ vin = NoCall
    /\ vin' = [call |-> "analyze", solutions |-> sols, dump_words |-> dump_words]
    /\ vout' = [solutions |-> sorted, sa |-> SolutionAnalysis(sorted),
                word_counts |-> IF dump_words
                                THEN [w \in {unique(sorted)[k].word :
                                               k \in 1..Len(unique(sorted))} |-> 1]
                                ELSE <<>>]
    /\ op' = <<"analyze">>
    /\ UNCHANGED <<solverVars, gen, grid, dlx>>

\* do_score_boards, one board: sort, unique, the number of solutions left
\* and the sum of their scores
ScoreBoard(sols, sorted) ==
    /\ vin = NoCall
    /\ vin' = [call |-> "score", solutions |-> sols]
    /\ vout' = [solutions |-> unique(sorted), words |-> Len(unique(sorted)),
                points |-> points_of(unique(sorted))]
    /\ op' = <<"score">>
    /\ UNCHANGED <<solverVars, gen, grid, dlx>>

\* do_solve_boards, one board: sort, unique unless solve_dups, and the
\* solutions in the order they are printed
SolveBoard(sols, sorted, solve_dups) ==
    /\ vin = NoCall
    /\ vin' = [call |-> "solve", solutions |-> sols, solve_dups |-> solve_dups]
    /\ vout' = [solutions |-> IF solve_dups THEN sorted ELSE unique(sorted)]
    /\ op' = <<"solve">>
    /\ UNCHANGED <<solverVars, gen, grid, dlx>>

\* the solutions of the board on the next line of standard input; one
\* board is read
NextBoard == IF vin = NoCall THEN SolutionLists ELSE {}

CommandNext ==
    \/ \E sols \in NextBoard : \E sorted \in sort(sols), dump_words \in BOOLEAN :
          AnalyzeBoard(sols, sorted, dump_words)
    \/ \E sols \in NextBoard : \E sorted \in sort(sols) : ScoreBoard(sols, sorted)
    \/ \E sols \in NextBoard : \E sorted \in sort(sols), solve_dups \in BOOLEAN :
          SolveBoard(sols, sorted, solve_dups)

CommandSpec == SolverInit /\ [][CommandNext]_vars


(* What the claims on solution lists speak of                              *)

\* the words of a list of solutions
WordsOf(v) == {v[k].word : k \in 1..Len(v)}

\* the highest score of the solutions of word w in v
MaxScore(v, w) ==
    CHOOSE m \in {v[k].score : k \in {h \in 1..Len(v) : v[h].word = w}} :
        \A k \in 1..Len(v) : v[k].word = w => v[k].score <= m

RECURSIVE SumOver(_, _)
SumOver(f, D) ==
    IF D = {} THEN 0
    ELSE With(CHOOSE x \in D : TRUE, LAMBDA x : f[x] + SumOver(f, D \ {x}))

\* the members of a SolutionAnalysis that count words, points and lengths
Aggregates(A) ==
    <<A.word_length_counts, A.point_length_counts, A.word_lengthp_counts,
      A.point_lengthp_counts, map_at(A.position_words, 0, 0),
      map_at(A.position_points, 0, 0), A.best_words, A.best_word_points>>

\* C12: on a list sorted by word and then by falling score the analyzer
\* computes the same counts and point sums per length, the same n-or-more
\* counts and sums, the same totals and the same best words and scores as on
\* the list without its duplicate words
C12_DedupIdempotence ==
    (vin.call = "analyze") =>
        Aggregates(vout.sa) = Aggregates(SolutionAnalysis(unique(vout.solutions)))

\* a list with a word three times, with different scores and paths: the
\* position counts differ from those of the list without duplicates
C12_Witness ==
    /\ vin.call = "analyze"
    /\ Len(vout.solutions) = 3
    /\ Len(unique(vout.solutions)) = 1
    /\ vout.solutions[1].score > vout.solutions[3].score
    /\ vout.sa.position_words # SolutionAnalysis(unique(vout.solutions)).position_words

\* the solutions of word w in v that go over tile t
Through(v, w, t) ==
    {k \in 1..Len(v) : v[k].word = w /\ \E h \in 1..Len(v[k].positions) : v[k].positions[h] = t}

\* the tiles of the paths of v
TilesOf(v) == UNION {{v[k].positions[h] : h \in 1..Len(v[k].positions)} : k \in 1..Len(v)}

\* the score of the first solution of word w in v that goes over tile t
FirstScore(v, w, t) ==
    v[CHOOSE k \in Through(v, w, t) : \A h \in Through(v, w, t) : k <= h].score

\* C13: for every tile position p, counted from 1, position_words[p] is the
\* number of distinct words with a solution over tile p - 1, and
\* position_points[p] has got one score for each such word, that of the
\* first solution with it; the positions credited are kept for the word,
\* over solutions of it with different scores
C13_PositionAccounting ==
    (vin.call = "analyze") =>
        /\ DOMAIN vout.sa.position_words \ {0} = {t + 1 : t \in TilesOf(vout.solutions)}
        /\ DOMAIN vout.sa.position_points = DOMAIN vout.sa.position_words
        /\ \A t \in TilesOf(vout.solutions) :
              /\ vout.sa.position_words[t + 1] =
                    Cardinality({w \in WordsOf(vout.solutions) :
                                   Through(vout.solutions, w, t) # {}})
              /\ vout.sa.position_points[t + 1] =
                    SumOver([w \in WordsOf(vout.solutions) |->
                                IF Through(vout.solutions, w, t) = {} THEN 0
                                ELSE FirstScore(vout.solutions, w, t)],
                            WordsOf(vout.solutions))

\* two solutions of one word with different scores over tile 1 and a
\* solution of another word over it
C13_Witness ==
    /\ vin.call = "analyze"
    /\ Len(vout.solutions) = 3
    /\ vout.solutions[1].word = vout.solutions[2].word
    /\ vout.solutions[1].score > vout.solutions[2].score
    /\ vout.solutions[2].word # vout.solutions[3].word
    /\ \A k \in 1..3 : k \in Through(vout.solutions, vout.solutions[k].word, 1)
    /\ vout.sa.position_words[2] = 2

\* C14: after sort and unique every word of the list is there once, with the
\* highest score of its solutions; the word count of the score command is
\* the number of distinct words and its points are the sum of these scores
C14_BestInstance ==
    (vin.call = "score") =>
        /\ \A w \in WordsOf(vin.solutions) :
              /\ Cardinality({k \in 1..Len(vout.solutions) : vout.solutions[k].word = w}) = 1
              /\ \A k \in 1..Len(vout.solutions) :
                    vout.solutions[k].word = w =>
                        vout.solutions[k].score = MaxScore(vin.solutions, w)
        /\ WordsOf(vout.solutions) = WordsOf(vin.solutions)
        /\ vout.words = Cardinality(WordsOf(vin.solutions))
        /\ vout.points = SumOver([w \in WordsOf(vin.solutions) |-> MaxScore(vin.solutions, w)],
                                 WordsOf(vin.solutions))

\* a list of three with a word twice, its lower score first
C14_Witness ==
    /\ vin.call = "score"
    /\ Len(vin.solutions) = 3
    /\ vin.solutions[1].word = vin.solutions[3].word
    /\ vin.solutions[1].score < vin.solutions[3].score
    /\ vin.solutions[2].word # vin.solutions[1].word
    /\ vout.words = 2

\* C20: the solutions solve and solve-dups print are in the order of falling
\* score, and of the words among solutions of equal score
C20_OutputOrder ==
    (vin.call = "solve") =>
        \A i, j \in 1..Len(vout.solutions) :
            i < j => ~cmp_solutions(vout.solutions[j], vout.solutions[i])


-----------------------------------------------------------------------------
(* Validator::validatePropensityWord and Validator::validate with          *)
(* interpret true (validate.cpp)                                           *)

\* bool Validator::multiLetterTiles(tiles)
multiLetterTiles(tiles) == \E i \in 1..Len(tiles) : Len(tiles[i]) > 1

\* find(letters.begin(), letters.end(), t): the index of the first element
\* equal to t, 0 for letters.end()
find_tile(letters, t) ==
    IF \A i \in 1..Len(letters) : letters[i] # t THEN 0
    ELSE CHOOSE i \in 1..Len(letters) :
            letters[i] = t /\ \A h \in 1..(i - 1) : letters[h] # t

\* letters.erase(iter)
erase_tile(letters, at) == SubSeq(letters, 1, at - 1) \o SubSeq(letters, at + 1, Len(letters))

\* lines 326-356: the loop over the letters of the word from letter k on;
\* the tile of the letter, or else a wildcard, is taken, and erased when
\* sampling without replacement.  The result is whether every letter found
\* a tile, and the letters left when one did not
RECURSIVE spell_loop(_, _, _, _)
spell_loop(letters, word, k, sample_without_replace) ==
    IF k > Len(word) THEN [spelled |-> TRUE, letters |-> letters]
    ELSE With(IF find_tile(letters, <<word[k]>>) # 0 THEN find_tile(letters, <<word[k]>>)
              ELSE find_tile(letters, <<"?">>),
              LAMBDA at :
                 IF at = 0 THEN [spelled |-> FALSE, letters |-> letters]
                 ELSE spell_loop(IF sample_without_replace THEN erase_tile(letters, at)
                                 ELSE letters,
                                 word, k + 1, sample_without_replace))

\* lines 338-345: is there a multi-letter tile that sends the word to DLX
prop_gate(letters, word) ==
    \E i \in 1..Len(letters) :
        /\ ~(Len(letters[i]) <= 1)
        /\ \/ string_find(word, letters[i], 0) # npos
           \/ /\ letters[i][1] = "?"
              /\ string_find(word, substr1(letters[i]), 0) # npos
              /\ string_find(word, substr1(letters[i]), 0) > 0

\* lines 407-411: the number of places from pos on where face_text is found
RECURSIVE match_count(_, _, _)
match_count(word, face_text, pos) ==
    IF string_find(word, face_text, pos) = npos THEN 0
    ELSE 1 + match_count(word, face_text, string_find(word, face_text, pos) + 1)

\* lines 370-373: prop_counts[prop_letter]
prop_count(prop_letters, letter) ==
    Cardinality({i \in 1..Len(prop_letters) : prop_letters[i] = letter})

\* lines 376-419: letters_map[letter]; a lone wildcard has no entry when
\* sampling with replacement
letters_count(prop_letters, word, letter, sample_without_replace) ==
    IF letter = <<"?">>
    THEN IF sample_without_replace
         THEN Min(Len(word), prop_count(prop_letters, letter)) ELSE 0
    ELSE With(IF char0(letter) = "?" THEN match_count(word, substr1(letter), 1)
              ELSE match_count(word, letter, 0),
              LAMBDA n : IF sample_without_replace
                         THEN Min(n, prop_count(prop_letters, letter)) ELSE n)

\* lines 422-428: the tiles handed to DLX, in the order of the map's keys
RECURSIVE dlx_tiles(_, _, _, _, _)
dlx_tiles(keys, k, prop_letters, word, sample_without_replace) ==
    IF k > Len(keys) THEN <<>>
    ELSE [i \in 1..letters_count(prop_letters, word, keys[k], sample_without_replace)
            |-> keys[k]]
         \o dlx_tiles(keys, k + 1, prop_letters, word, sample_without_replace)

\* lines 443-491: the rows of the tiles: those of the places a tile fits,
\* then the tile alone
RECURSIVE rows_of_tiles(_, _, _)
rows_of_tiles(word, letters, i) ==
    IF i > Len(letters) THEN <<>>
    ELSE rows_of_face(word, letters[i], Len(word) + i - 1)
         \o <<<<Len(word) + i - 1>>>>
         \o rows_of_tiles(word, letters, i + 1)

\* lines 430-491: the DLX object validatePropensityWord builds
prop_word_dlx(letters, word) ==
    dlx_rows(dlx_columns(NewDLX, Len(word) + Len(letters)), rows_of_tiles(word, letters, 1), 1)

\* bool Validator::validatePropensityWord(prop_letters, word,
\* sample_without_replace): the return value and the counters after the call
validatePropensityWord(V, prop_letters, word, sample_without_replace) ==
    With(spell_loop(prop_letters, word, 1, sample_without_replace),
         LAMBDA first :
            IF first.spelled THEN [result |-> TRUE, V |-> V]
            ELSE IF ~(multiLetterTiles(prop_letters) /\ prop_gate(first.letters, word))
            THEN [result |-> FALSE, V |-> V]
            ELSE With(DLX_solve(prop_word_dlx(
                          dlx_tiles(sorted_strings({prop_letters[i] : i \in 1..Len(prop_letters)}),
                                    1, prop_letters, word, sample_without_replace),
                          word), FALSE).solutions # 0,
                      LAMBDA found :
                         [result |-> found,
                          V |-> [V EXCEPT !.dlx_used = @ + 1,
                                          !.dlx_found = @ + (IF found THEN 1 ELSE 0)]]))

\* a face left as it is
q_to_qu_none(face) == face

\* face.replace(pos, 1, "QU") for every "Q" of a face (lines 557-564 and
\* 612-621)
RECURSIVE q_to_qu(_)
q_to_qu(face) ==
    IF face = <<>> THEN <<>>
    ELSE IF Head(face) = "Q" THEN <<"Q", "U">> \o q_to_qu(Tail(face))
    ELSE <<Head(face)>> \o q_to_qu(Tail(face))

\* the faces of a die, or the tiles of a pool, after the replacement
expand_q(faces, q_is_qu) ==
    IF q_is_qu THEN [j \in 1..Len(faces) |-> q_to_qu(faces[j])] ELSE faces

\* bool Validator::validate(grs, to_check, interpret) with interpret true:
\* can the word to_check be spelled with the game's dice or letter pool
validate_word(V, grs, to_check) ==
    IF grs.letters.generation_method = "Dice"
    THEN validateDiceWord(V,
             [i \in 1..Len(grs.letters.dice) |->
                 expand_q(sort_unique(normalize(grs.letters.dice[i])),
                          grs.scoring_rules.q_is_qu)],
             UpperString(strip(to_check, FALSE)))
    ELSE IF grs.letters.generation_method = "LetterPropensity"
    THEN validatePropensityWord(V,
             expand_q(IF ~grs.letters.sample_without_replacement
                      THEN sort_unique(normalize(grs.letters.propensity_list))
                      ELSE normalize(grs.letters.propensity_list),
                      grs.scoring_rules.q_is_qu),
             UpperString(strip(to_check, FALSE)),
             grs.letters.sample_without_replacement)
    ELSE [result |-> FALSE, V |-> V]


-----------------------------------------------------------------------------
(* The solver on boards with a Q: one Solver, a dictionary of words with   *)
(* QU, one board                                                           *)

QuWords == { <<"Q","U","I","T">>, <<"Q","U","U","I","T">>, <<"Q","I","T">> }

QuLetterValues == [c \in {"Q", "U", "I", "T"} |-> IF c = "Q" THEN 8 ELSE 1]

\* a Q is a Qu or not, counted as one letter or as two; words of any length
\* or of four letters and more
QuRules ==
    { [NoRules EXCEPT !.q_is_qu = q, !.qu_length = n, !.min_word_length = m,
                      !.letter_values = QuLetterValues] :
        q \in BOOLEAN, n \in 1..2, m \in {0, 4} }

QuNext ==
    \/ \E w \in QuWords : AddWord(w)
    \/ \E letters \in QuBoards, g \in SolverGrids, sr \in QuRules :
          board = NoBoard /\ Solve(letters, g, sr)
    \/ \E i \in 1..Len(solutions) : Rescore(i)

QuSpec == SolverInit /\ [][QuNext]_vars

\* the board of the scenario, with first tile t0, solved with QUIT as the
\* only word, a Q being a Qu of two letters
QuScenario(t0) ==
    /\ board # NoBoard
    /\ board.board_size = 3
    /\ tile(board, 0) = t0
    /\ tile(board, 1) = <<"I">>
    /\ tile(board, 2) = <<"T">>
    /\ is_adjacent(board, 0, 1)
    /\ is_adjacent(board, 1, 2)
    /\ added = {<<"Q","U","I","T">>}
    /\ rules.q_is_qu
    /\ rules.qu_length = 2

\* one Solution: QUIT, four letters, three tiles
OneQuit ==
    /\ Len(solutions) = 1
    /\ solutions[1].word = <<"Q","U","I","T">>
    /\ solutions[1].word_length = 4
    /\ Len(solutions[1].positions) = 3

\* C18 as stated: with tile 0 "Qu" the solver emits exactly one Solution,
\* QUIT with word length 4 and a path of length 3
C18_AsStated == QuScenario(<<"Q","u">>) => OneQuit

\* C18: with tile 0 "Q" the solver emits exactly one Solution, QUIT with
\* word length 4 and a path of length 3; with tile 0 "Qu" it emits none
C18_QuDigraph ==
    /\ QuScenario(<<"Q">>) => OneQuit
    /\ QuScenario(<<"Q","u">>) => solutions = <<>>

\* the board Q, I, T solved
C18_Witness == QuScenario(<<"Q">>) /\ OneQuit /\ op = <<"solve">>


-----------------------------------------------------------------------------
(* Word checks (solver.cpp: do_check_words): one call on a new Validator   *)

\* the tiles of the pools a word is checked against
TilePool ==
    << <<"A">>, <<"H">>, <<"?">>, <<"A", "H">>, <<"?", "H">>, <<"?", "A">> >>

\* games with a Q or a Qu on a die, or in the pool
QuGame(method, letters, without_replacement, q_is_qu) ==
    [Game(method, letters, without_replacement, "Straight")
        EXCEPT !.scoring_rules.q_is_qu = q_is_qu]

WordGames ==
    { QuGame(in[1], in[2], in[3], q) :
        in \in { <<"Dice", <<"Q", "u", "X", ",", "I", ",", "T">>, TRUE>>,
                 <<"Dice", <<"Q", "X", ",", "I", ",", "T">>, TRUE>>,
                 <<"LetterPropensity", <<"Q", "u", "I", "T">>, TRUE>>,
                 <<"LetterPropensity", <<"Q", "I", "T">>, FALSE>> },
        q \in BOOLEAN }

\* the lines read: words over Q, U, I, T, in lower case and with a
\* character that is no letter
CheckedWords ==
    StringsUpTo({"Q", "U", "I", "T"}, 4)
        \cup { <<"q", "u", "i", "t">>, <<"Q", "U", "?", "I", "T">> }

\* v.validatePropensityWord(prop_letters, word, sample_without_replace)
ValidatePropensityWord(prop_letters, word, sample_without_replace) ==
    /\ vin = NoCall
    /\ vin' = [call |-> "validatePropensityWord", prop_letters |-> prop_letters,
               word |-> word, sample_without_replace |-> sample_without_replace]
    /\ vout' = validatePropensityWord(vout.V, prop_letters, word, sample_without_replace)
    /\ UNCHANGED <<solverVars, op, gen, grid, dlx>>

\* v.validate(grs, line, true)
ValidateWord(grs, to_check) ==
    /\ vin = NoCall
    /\ vin' = [call |-> "validate_word", grs |-> grs, to_check |-> to_check]
    /\ vout' = validate_word(vout.V, grs, to_check)
    /\ UNCHANGED <<solverVars, op, gen, grid, dlx>>

WordNext ==
    \/ \E dice \in DiceSets(WordDicePool), word \in ValidatorWords :
          ValidateDiceWord(dice, word)
    \/ \E prop_letters \in DiceSets(TilePool), word \in ValidatorWords :
          \E sample_without_replace \in BOOLEAN :
             ValidatePropensityWord(prop_letters, word, sample_without_replace)
    \/ \E grs \in WordGames, to_check \in CheckedWords : ValidateWord(grs, to_check)

WordSpec == SolverInit /\ [][WordNext]_vars

(* What the claims on word checks speak of                                 *)

\* v with e put in after its first k elements
Inserted(v, k, e) == SubSeq(v, 1, k) \o <<e>> \o SubSeq(v, k + 1, Len(v))

\* C15: a word accepted with a list of dice is accepted with the list and
\* one more die, and a word accepted with a pool is accepted, in the same
\* sampling mode, with the pool and one more tile
C15_Monotonicity ==
    /\ (vin.call = "validateDiceWord" /\ vout.result) =>
          \A i \in 1..Len(WordDicePool), k \in 0..Len(vin.dice) :
              validateDiceWord(NewValidator, Inserted(vin.dice, k, WordDicePool[i]),
                               vin.word).result
    /\ (vin.call = "validatePropensityWord" /\ vout.result) =>
          \A i \in 1..Len(TilePool), k \in 0..Len(vin.prop_letters) :
              validatePropensityWord(NewValidator,
                                     Inserted(vin.prop_letters, k, TilePool[i]),
                                     vin.word, vin.sample_without_replace).result

\* a word of three letters accepted by the exact cover, with two dice and
\* with two tiles
C15_Witness ==
    /\ vin.call \in {"validateDiceWord", "validatePropensityWord"}
    /\ vout.result
    /\ vout.V.dlx_found = 1
    /\ Len(vin.word) = 3
    /\ Len(IF vin.call = "validateDiceWord" THEN vin.dice ELSE vin.prop_letters) = 2

\* every face of the dice is one character
SingleCharacterFaces(dice) ==
    \A i \in 1..Len(dice) : \A j \in 1..Len(dice[i]) : Len(dice[i][j]) = 1

\* C16: for dice whose faces are single characters the flow of the first
\* phase is the length of the word exactly when the exact cover problem
\* validateDiceWord builds for the dice and the word has a solution
C16_PhaseAgreement ==
    (vin.call = "validateDiceWord" /\ SingleCharacterFaces(vin.dice)) =>
        ((maxFlow(ff_graph(Len(vin.dice), Len(vin.word), dice_word_edges(vin.dice, vin.word)),
                  0, Len(vin.dice) + Len(vin.word) + 1) = Len(vin.word))
         <=> (DLX_solve(dice_word_dlx(vin.dice, vin.word), FALSE).solutions # 0))

\* three dice with single characters, one of them the wildcard, and a word
\* of three letters that needs it
C16_Witness ==
    /\ vin.call = "validateDiceWord"
    /\ SingleCharacterFaces(vin.dice)
    /\ Len(vin.dice) = 3
    /\ vin.word = <<"A", "A", "H">>
    /\ \E i \in 1..3 : vin.dice[i] = << <<"?">> >>
    /\ vout.result
    /\ DLX_solve(dice_word_dlx(vin.dice, vin.word), FALSE).solutions # 0

\* can the word be written with the tiles at the places avail of the pool,
\* each at most once, or any number of times
RECURSIVE PoolSpells(_, _, _, _)
PoolSpells(letters, avail, word, once) ==
    \/ word = <<>>
    \/ \E d \in avail :
          /\ Len(letters[d]) >= 1
          /\ Len(letters[d]) <= Len(word)
          /\ FaceMatches(letters[d], SubSeq(word, 1, Len(letters[d])))
          /\ PoolSpells(letters, IF once THEN avail \ {d} ELSE avail,
                        SubSeq(word, Len(letters[d]) + 1, Len(word)), once)

\* C17: validatePropensityWord returns true exactly when the word is a
\* concatenation of pool tiles, a '?' standing for any letter, each pool
\* entry used at most once when sampling without replacement
C17_PropensityWord ==
    (vin.call = "validatePropensityWord") =>
        (vout.result <=> PoolSpells(vin.prop_letters, 1..Len(vin.prop_letters), vin.word,
                                    vin.sample_without_replace))

\* the call of the scenario: the word QUIT checked with the game of dice
\* letters, a Q being a Qu
DiceScenario(letters) ==
    /\ vin.call = "validate_word"
    /\ vin.grs = QuGame("Dice", letters, TRUE, TRUE)
    /\ vin.to_check = <<"Q", "U", "I", "T">>

\* C19 as stated: with dice [{Qu,X},{I},{T}] the word QUIT is accepted
C19_AsStated == DiceScenario(<<"Q", "u", "X", ",", "I", ",", "T">>) => vout.result

\* C19: with dice [{Q,X},{I},{T}] the word QUIT is accepted, by the exact
\* cover; with dice [{Qu,X},{I},{T}] it is not accepted
C19_MultiLetterDice ==
    /\ DiceScenario(<<"Q", "X", ",", "I", ",", "T">>) =>
          vout.result /\ vout.V.dlx_found = 1
    /\ DiceScenario(<<"Q", "u", "X", ",", "I", ",", "T">>) => ~vout.result

\* QUIT checked with the dice [{Q,X},{I},{T}]
C19_Witness == DiceScenario(<<"Q", "X", ",", "I", ",", "T">>) /\ vout.result

-----------------------------------------------------------------------------
(* The acceptance rule of the generators (maker.cpp 232-247, 338-367).     *)

\* a - b < k for the values two size_t variables hold, -1 standing for
\* the all-ones value
SignedDifferenceBelow(a, b, k) ==
    IF a = -1 /\ b = -1 THEN 0 < k
    ELSE IF a = -1 THEN FALSE
    ELSE IF b = -1 THEN TRUE
    ELSE a - b < k

\* the rule as a relation between the best held, the count of acceptances
\* and the candidate's word count and points
AcceptanceRule(g, boardScore, boardPoints) ==
    IF g.reverse_target
    THEN \/ size_less(boardScore, g.best_score)
         \/ size_less(boardPoints, g.best_points)
         \/ SignedDifferenceBelow(boardScore, g.best_score, 250 \div g.changes)
    ELSE \/ size_less(g.best_score, boardScore)
         \/ size_less(g.best_points, boardPoints)
         \/ SignedDifferenceBelow(g.best_score, boardScore, 250 \div g.changes)

-----------------------------------------------------------------------------
(* The grid as an object: json_read_grids (wgs_json.cpp 91-116) makes a    *)
(* GameGrid, sets its adjacency and its tiles; boards are made on the grid *)
(* once it is read (Board::Board, scramble.cpp 137-141).                   *)

\* how many cells setTile may count, and the longest board made
MaxSetTile == 4

MaxBoardTiles == 5

\* coordinates handed to setTile: the first rows, the last one, and one on
\* each side of the range (x - 1 for x = 0 is -1)
GridCoords == {-1, 0, 1, MAX_GRID_WIDTH - 1, MAX_GRID_WIDTH}

GridAdjacencies == {"Straight", "Diagonal", "Full"}

RECURSIVE PlainBoard(_)
PlainBoard(n) == IF n = 0 THEN <<>> ELSE Append(PlainBoard(n - 1), "A")

\* g.setTile(x, y, value)
SetTile(x, y, value) ==
    /\ board = NoBoard
    /\ grid.tiles_set < MaxSetTile
    /\ grid' = setTile(grid, x, y, value)
    /\ op' = <<"setTile">>
    /\ UNCHANGED <<solverVars, vin, vout, gen, dlx>>

\* g.clearTiles()
ClearTiles ==
    /\ board = NoBoard
    /\ grid' = clearTiles(grid)
    /\ op' = <<"clearTiles">>
    /\ UNCHANGED <<solverVars, vin, vout, gen, dlx>>

\* g.setAdjacency(d)
SetAdjacency(d) ==
    /\ board = NoBoard
    /\ grid' = setAdjacency(grid, d)
    /\ op' = <<"setAdjacency">>
    /\ UNCHANGED <<solverVars, vin, vout, gen, dlx>>

\* Board b(letters, &g) for a board of n plain tiles
NewBoard(n) ==
    /\ board = NoBoard
    /\ board' = Board(PlainBoard(n), grid)
    /\ op' = <<"Board">>
    /\ UNCHANGED <<dict, solutions, used, path, cur_len, wildcard, added, rules, rescored>>
    /\ UNCHANGED idleRest

GridNext ==
    \/ \E x, y \in GridCoords, value \in BOOLEAN : SetTile(x, y, value)
    \/ ClearTiles
    \/ \E d \in GridAdjacencies : SetAdjacency(d)
    \/ \E n \in 0..MaxBoardTiles : NewBoard(n)

GridSpec == SolverInit /\ [][GridNext]_vars

\* the cells for which isTileSet returns true
EnabledCells(g) ==
    {c \in (0..(MAX_GRID_WIDTH - 1)) \X (0..(MAX_GRID_WIDTH - 1)) : isTileSet(g, c[1], c[2])}

\* C29: tilesSet() is the number of cells for which isTileSet returns true
C29_TileCount == tilesSet(grid) = Cardinality(EnabledCells(grid))

\* the enabled cells in row-major order
RECURSIVE RowMajor(_)
RowMajor(cells) ==
    IF cells = {} THEN <<>>
    ELSE LET first == CHOOSE c \in cells :
                         \A d \in cells : c[1] < d[1] \/ (c[1] = d[1] /\ c[2] <= d[2])
         IN  <<first>> \o RowMajor(cells \ {first})

Abs(n) == IF n < 0 THEN -n ELSE n

\* 4-neighbours (Straight) or 8-neighbours (Diagonal)
Neighbours(adjacency, c, d) ==
    LET dx == Abs(c[1] - d[1])
        dy == Abs(c[2] - d[2])
    IN  IF adjacency = "Straight" THEN dx + dy = 1
        ELSE c # d /\ dx <= 1 /\ dy <= 1

\* C24: on a Straight or Diagonal grid is_adjacent is symmetric and
\* irreflexive, and tiles i and j are adjacent exactly when both are below
\* the number of enabled cells and the i-th and j-th enabled cells in
\* row-major order are neighbours
C24_AdjacencyMatrix ==
    (board # NoBoard /\ grid.tile_adjacency \in {"Straight", "Diagonal"}) =>
        \E cells \in {RowMajor(EnabledCells(grid))} :
           \A i, j \in 0..(board.board_size - 1) :
              /\ is_adjacent(board, i, j) = is_adjacent(board, j, i)
              /\ ~is_adjacent(board, i, i)
              /\ is_adjacent(board, i, j) <=>
                    /\ i < Len(cells)
                    /\ j < Len(cells)
                    /\ Neighbours(grid.tile_adjacency, cells[i + 1], cells[j + 1])

\* a board of more tiles than the Diagonal grid has cells, two of them
\* touching at a corner, one in the last row
C24_Witness ==
    /\ board # NoBoard
    /\ grid.tile_adjacency = "Diagonal"
    /\ board.board_size > Cardinality(EnabledCells(grid))
    /\ Cardinality(EnabledCells(grid)) = 3
    /\ <<MAX_GRID_WIDTH - 1, 1>> \in EnabledCells(grid)
    /\ is_adjacent(board, 0, 1)
    /\ ~is_adjacent(board, 0, 2)

-----------------------------------------------------------------------------
(* Board description strings (Board::parse_board, scramble.cpp 215-260).   *)

\* the longest string of mixed characters, and the longest run of
\* multiplier marks in front of a tile
MaxBoardLen == 4

MaxRun == 256

\* an uppercase and a lowercase letter, the empty tile, the wildcard, the
\* two multiplier marks and a character that is none of these
ParseAlphabet == {"A", "a", ".", "?", ":", ";", "1"}

Run(c, n) == [i \in 1..n |-> c]

BoardStrings ==
    StringsUpTo(ParseAlphabet, MaxBoardLen)
    \cup {Run(m, n) \o <<t>> \o <<"a", m, "T">> :
            m \in {":", ";"}, n \in (MaxRun - 3)..MaxRun, t \in {"A", "."}}

\* Board b(letters, NULL)
ParseBoard(letters) ==
    /\ board = NoBoard
    /\ board' = Board(letters, NoGrid)
    /\ op' = <<"Board">>
    /\ UNCHANGED <<dict, solutions, used, path, cur_len, wildcard, added, rules, rescored>>
    /\ UNCHANGED idleRest

ParseNext == \E letters \in BoardStrings : ParseBoard(letters)

ParseSpec == SolverInit /\ [][ParseNext]_vars

\* the characters that start a tile
IsTileToken(c) == isupper(c) \/ c = "?" \/ c = "."

\* the index in letters of the k-th tile token, k from 1
TokenAt(letters, k) ==
    CHOOSE i \in 1..Len(letters) :
        /\ IsTileToken(letters[i])
        /\ Cardinality({j \in 1..i : IsTileToken(letters[j])}) = k

\* how many marks m stand between the token before the k-th and the k-th
MarksBefore(letters, k, m) ==
    Cardinality({j \in 1..(TokenAt(letters, k) - 1) :
                    /\ letters[j] = m
                    /\ k > 1 => j > TokenAt(letters, k - 1)})

\* C22: the board has one tile per tile token of its string, a tile
\* started by '.' is empty whatever follows it, and only a tile started by
\* an uppercase letter holds lowercase letters
C22_EmptyTiles ==
    board # NoBoard =>
        /\ Len(board.tile_grid)
              = Cardinality({j \in 1..Len(board.letters) : IsTileToken(board.letters[j])})
        /\ \A k \in 1..Len(board.tile_grid) :
              /\ board.letters[TokenAt(board.letters, k)] = "." => board.tile_grid[k] = <<>>
              /\ (\E h \in 1..Len(board.tile_grid[k]) : islower(board.tile_grid[k][h]))
                    => isupper(board.letters[TokenAt(board.letters, k)])

\* C23: the letter multiplier of a tile is 1 plus the number of ':' since
\* the tile token before it, its word multiplier 1 plus the number of ';',
\* and both are at least 1
C23_Multipliers ==
    board # NoBoard =>
        \A k \in 1..Len(board.tile_grid) :
           /\ board.letter_mult_grid[k] = 1 + MarksBefore(board.letters, k, ":")
           /\ board.word_mult_grid[k] = 1 + MarksBefore(board.letters, k, ";")
           /\ board.letter_mult_grid[k] >= 1
           /\ board.word_mult_grid[k] >= 1

-----------------------------------------------------------------------------
(* The trie on its own: words are added to a root and looked up            *)
(* (scramble.cpp 27-134).                                                  *)

\* how many words are added, how long they are
MaxTrieWords == 3

MaxTrieLen == 2

\* words of letters in both cases and of a character that is no letter
TrieWords == StringsUpTo({"A", "B", "a", "1"}, MaxTrieLen)

\* the uppercase strings looked up: one letter longer than any word
TrieProbes == StringsUpTo({"A", "B"}, MaxTrieLen + 1)

\* root.add_word(w)
InsertWord(w) ==
    /\ Cardinality(added \cup {w}) <= MaxTrieWords
    /\ dict' = Trie_add_word(dict, TrieRoot, w)
    /\ added' = added \cup {w}
    /\ op' = <<"add_word">>
    /\ UNCHANGED <<solutions, board, used, path, cur_len, wildcard, rules, rescored>>
    /\ UNCHANGED idleRest

\* root.is_a_word(s), with the outcome it had
IsAWord(s) ==
    /\ \E r \in is_a_word(dict, TrieRoot, s) : op' = <<"is_a_word", s, r>>
    /\ UNCHANGED <<solverVars, vin, vout, gen, grid, dlx>>

TrieNext ==
    \/ \E w \in TrieWords : InsertWord(w)
    \/ \E s \in TrieProbes : IsAWord(s)

TrieSpec == SolverInit /\ [][TrieNext]_vars

\* the node reached from node n by child(c) for the characters of s
RECURSIVE descend(_, _, _)
descend(T, n, s) ==
    IF n = NullTrie \/ s = <<>> THEN n
    ELSE descend(T, Trie_child(T, n, Head(s)), Tail(s))

\* the dense trie: every node has its 26 slots from the start
DenseNode == [is_word |-> FALSE, children |-> TRUE, child_letter |-> NUL]

RECURSIVE Dense_add_word(_, _, _)
Dense_add_word(T, n, word) ==
    IF word = <<>>
    THEN [T EXCEPT ![n].is_word = TRUE]
    ELSE LET letter == toupper(Head(word))
             c      == Append(n, letter)
         IN  IF ~isupper(letter) THEN T
             ELSE Dense_add_word(IF c \in DOMAIN T THEN T ELSE (c :> DenseNode) @@ T,
                                 c, Tail(word))

RECURSIVE DenseTrie(_)
DenseTrie(words) ==
    IF words = {} THEN (TrieRoot :> DenseNode)
    ELSE LET w == CHOOSE x \in words : TRUE
         IN  Dense_add_word(DenseTrie(words \ {w}), TrieRoot, w)

AllLetters(w) == \A i \in 1..Len(w) : isalpha(w[i])

\* the uppercase forms of the words added that are all letters
InsertedWords == {UpperString(w) : w \in {x \in added : AllLetters(x)}}

\* C27: under child(c) and is_a_word() the trie behaves like the dense
\* trie of the same words: an uppercase string leads to a node in one
\* exactly if it does in the other (no child is lost), and the node is
\* terminal exactly if the string is the uppercase form of an added word
\* that is all letters
C27_TrieRefinement ==
    \E D \in {DenseTrie(added)} :
       \A s \in TrieProbes :
          \E n \in {descend(dict, TrieRoot, s)}, d \in {descend(D, TrieRoot, s)} :
             /\ n = NullTrie <=> d = NullTrie
             /\ n # NullTrie => d = n /\ dict[n].is_word = D[d].is_word
             /\ (n # NullTrie /\ dict[n].is_word) <=> s \in InsertedWords

\* a node went from the inline slot to the array and both children, one
\* with a child of its own, are still there; a word with a character that
\* is no letter was added
C27_Witness ==
    /\ dict[TrieRoot].children
    /\ \E w \in added : ~AllLetters(w) /\ Len(w) = 2 /\ isalpha(w[1])
    /\ \E s \in InsertedWords : Len(s) = 2 /\ ~dict[<<s[1]>>].children
    /\ Cardinality({n \in DOMAIN dict : Len(n) = 1}) = 2

\* C28: is_a_word(word) returns true for the uppercase strings added and
\* false, without failing, for every other uppercase string
C28_TotalLookup ==
    op[1] = "is_a_word" =>
        op[3] = (IF op[2] \in InsertedWords THEN "true" ELSE "false")

-----------------------------------------------------------------------------
(* The DLX object on its own: columns are added, then rows, then solve is  *)
(* called, as dice_word_dlx does (validate.cpp 157-232; dlx.h 83-132).     *)

MaxColumns == 3

MaxRows == 3

MaxRowLen == 2

\* dlx.addColumn(name)
AddColumn ==
    /\ Len(dlx.column_array) < MaxColumns
    /\ Len(dlx.L) = Len(dlx.column_array) + 1
    /\ op[1] # "DLX::solve"
    /\ dlx' = addColumn(dlx)
    /\ op' = <<"addColumn">>
    /\ UNCHANGED <<solverVars, vin, vout, gen, grid>>

\* dlx.addRow(values), the values being columns added
AddRow(values) ==
    /\ op[1] \in {"addColumn", "addRow"}
    /\ op[1] = "addRow" => op[2] < MaxRows
    /\ dlx' = addRow(dlx, values)
    /\ op' = <<"addRow", IF op[1] = "addRow" THEN op[2] + 1 ELSE 1>>
    /\ UNCHANGED <<solverVars, vin, vout, gen, grid>>

\* dlx.solve(all)
DlxSolve(all) ==
    /\ dlx' = DLX_solve(dlx, all)
    /\ op' = <<"DLX::solve", all>>
    /\ UNCHANGED <<solverVars, vin, vout, gen, grid>>

\* the rows of a 0/1 matrix over the columns added: a row names a column
\* at most once, as the rows of dice_word_dlx do (a run of word positions
\* and the column of the die)
DlxRows(X) ==
    {v \in UNION {[1..n -> 0..(Len(X.column_array) - 1)] : n \in 0..MaxRowLen} :
        \A i, j \in 1..Len(v) : i # j => v[i] # v[j]}

DlxNext ==
    \/ AddColumn
    \/ \E values \in DlxRows(dlx) : AddRow(values)
    \/ \E all \in BOOLEAN : DlxSolve(all)

DlxSpec == SolverInit /\ [][DlxNext]_vars

\* the links, the column of every element and the sizes
Structure(X) == <<X.L, X.R, X.U, X.D, X.C, X.S>>

\* C26: uncover(c) undoes cover(c), alone and nested in the cover of
\* another column, and a call of solve leaves every link and every column
\* size as it found them, so that a second call with the same mode returns
\* what the first returned
C26_Restores ==
    [][(\A c \in 1..Len(dlx.column_array) :
           /\ Structure(uncover(cover(dlx, c), c)) = Structure(dlx)
           /\ \A e \in (1..Len(dlx.column_array)) \ {c} :
                 Structure(uncover(uncover(cover(cover(dlx, c), e), e), c)) = Structure(dlx))
       /\ (op'[1] = "DLX::solve" =>
             (/\ Structure(dlx') = Structure(dlx)
              /\ DLX_solve(dlx', op'[2]).solutions = dlx'.solutions))]_vars

\* solve has stopped at the first of the covers of a matrix of two columns
\* and three rows
C26_Witness ==
    /\ op = <<"DLX::solve", FALSE>>
    /\ dlx.solutions = 1
    /\ Len(dlx.column_array) = 2
    /\ DLX_solve(dlx, TRUE).solutions >= 2
    /\ Len(dlx.L) >= 7

-----------------------------------------------------------------------------
(* The analyzer on the solutions of the solver: do_analyze_boards solves   *)
(* the board, sorts the solutions and builds the SolutionAnalysis          *)
(* (solver.cpp 379-422; analyze.cpp 22-97).                                *)

\* the loop body of do_analyze_boards after s.solve: get_solutions, sort,
\* SolutionAnalysis
AnalyzeSolved(sorted) ==
    /\ board # NoBoard
    /\ vin = NoCall
    /\ vin' = [call |-> "analyze", solutions |-> solutions, dump_words |-> FALSE]
    /\ vout' = [solutions |-> sorted, sa |-> SolutionAnalysis(sorted), word_counts |-> <<>>]
    /\ op' = <<"analyze">>
    /\ UNCHANGED <<solverVars, gen, grid, dlx>>

AnalyzeNext ==
    \/ \E w \in QuWords : AddWord(w)
    \/ \E letters \in QuBoards, g \in SolverGrids, sr \in QuRules :
          board = NoBoard /\ Solve(letters, g, sr)
    \/ \E sorted \in sort(solutions) : AnalyzeSolved(sorted)

AnalyzeSpec == SolverInit /\ [][AnalyzeNext]_vars

\* the places of a sorted list where a word is met for the first time
FirstEncounters(v) == {k \in 1..Len(v) : k = 1 \/ v[k].word # v[k - 1].word}

\* C25: the count and point buckets of the analysis are those of the
\* wordLength of the first solution of each word, and the n-or-more buckets
\* those of every n up to it
C25_LengthBuckets ==
    vin.call = "analyze" =>
        \E v \in {vout.solutions} :
           \A n \in 1..(MaxWordLen + 3) :
              /\ map_at(vout.sa.word_length_counts, n, 0)
                    = Cardinality({k \in FirstEncounters(v) : v[k].word_length = n})
              /\ map_at(vout.sa.point_length_counts, n, 0)
                    = SumOver([k \in 1..Len(v) |-> v[k].score],
                              {k \in FirstEncounters(v) : v[k].word_length = n})
              /\ map_at(vout.sa.word_lengthp_counts, n, 0)
                    = Cardinality({k \in FirstEncounters(v) : v[k].word_length >= n})
              /\ map_at(vout.sa.point_lengthp_counts, n, 0)
                    = SumOver([k \in 1..Len(v) |-> v[k].score],
                              {k \in FirstEncounters(v) : v[k].word_length >= n})

-----------------------------------------------------------------------------
(* The pool of generate_prop_board (maker.cpp 281-309, 311-372).           *)

\* how often tile x is in the list v
CountIn(v, x) == Cardinality({i \in 1..Len(v) : v[i] = x})

\* the tiles of v and w together are those of the list, each as often
SameTiles(v, w, list) ==
    \A x \in {v[i] : i \in 1..Len(v)} \cup {w[i] : i \in 1..Len(w)}
              \cup {list[i] : i \in 1..Len(list)} :
        CountIn(v, x) + CountIn(w, x) = CountIn(list, x)

\* C30: in generate_prop_board, when tiles are drawn without replacement
\* best and pool together hold the tiles of the propensity list at the start
\* of every iteration; a refused candidate leaves best, the best scores and
\* the pool as they were; and after every iteration the best scores are the
\* word count and the points of the solved board of best
C30_PoolConservation ==
    [][(gen.pc = "loop" /\ gen.method = "LetterPropensity" /\ op' = <<"climb">>) =>
          (/\ gen.grs.letters.sample_without_replacement =>
                 SameTiles(gen.best, gen.pool, gen.grs.letters.propensity_list)
           /\ gen'.duds # 0 =>
                 (/\ gen'.best = gen.best
                  /\ gen'.pool = gen.pool
                  /\ gen'.best_score = gen.best_score
                  /\ gen'.best_points = gen.best_points)
           /\ \E r \in {GenSolved[<<gen'.grs, accumulate(gen'.best)>>].r} :
                 /\ gen'.best_score = r.board_score
                 /\ gen'.best_points = r.board_points)]_vars

\* a candidate made by an exchange with the pool was refused after others
\* had been taken: the pool differs from the one of the first draw
C30_Witness ==
    /\ op = <<"climb">>
    /\ gen.method = "LetterPropensity"
    /\ gen.grs.letters.sample_without_replacement
    /\ gen.duds >= 1
    /\ gen.changes >= 3
    /\ Len(gen.pool) = 1
    /\ gen.pool[1] = gen.grs.letters.propensity_list[1]

====
